---- MODULE Spec2Model ----
(***************************************************************************)
(* A state-machine model of the request-routing core of the repository:    *)
(*   - src/src/searcher/cuTracker.ts      (module-level counters, lines    *)
(*     1-151, and the CuTracker class, lines 153-600)                      *)
(*   - src/src/searcher/providerStrategy.ts (ProviderStrategy)             *)
(* Several specifications share the variables; each one drives one         *)
(* component and leaves the other components' variables unchanged.         *)
(***************************************************************************)
EXTENDS Integers, Sequences, FiniteSets, TLC

(***************************************************************************)
(* Bounds of the model.                                                    *)
(***************************************************************************)
\* The wall clock runs from 0 to MaxNow ticks.
MaxNow == 4
\* Ticks in one UTC day and days in one calendar month of the model's clock.
TicksPerDay == 2
DaysPerMonth == 2
\* Caps on the counters of one provider (guards of the mutating calls).
MaxUsed == 5
MaxRequests == 3
MaxCacheHits == 2
\* At most MaxWrites persistence jobs of the CuTracker class are in flight.
MaxWrites == 2
\* At most MaxSeq persisted mutations (recordUsage, recordCacheHit, reset).
MaxSeq == 3

Max(a, b) == IF a >= b THEN a ELSE b
Min(a, b) == IF a <= b THEN a ELSE b

(***************************************************************************)
(* Names.  "px" is a provider name that is never registered.               *)
(***************************************************************************)
Registered == {"p1", "p2"}
Names == Registered \cup {"px"}

VARIABLES
  now,            \* the wall clock (Date.now / new Date), in ticks
  tracker,        \* CuTracker.providers: name -> ProviderUsageInternal counters
  registration,   \* CuTracker.providers[name].registration
  persistPromise, \* CuTracker.persistPromise is non-null
  writes,         \* the persistence jobs in flight, in the order they started
  file,           \* the content of the storage file: the payload last written
  last,           \* the last call made and what it returned
  seq,            \* history: number of persisted mutations made so far
  fileSeq,        \* history: the value of seq when the file's payload was built
  win,            \* history: what was recorded per provider since its window began
  monthSum,       \* history: cost recorded per provider since its month began
  statusArgs,     \* the arguments of one computeStatusLevel call
  statusLevel,    \* what that call returned ("none" before it)
  cstate,         \* cuTracker.ts module state: counters, dirty, pendingTimer, flushPromise
  countersFile,   \* the content of COUNTERS_FILE
  flushNowCall,   \* one caller of flushNow(): where it is, and what it saw
  waitCall,       \* one caller of waitForIdle(): where it is, and what it saw
  history,        \* history: the module-level counters after each mutation
  providers,      \* ProviderStrategy.providers: the state of each provider
  strategy,       \* ProviderStrategy: key order, emergency flags, counter, cacheStats
  cache,          \* ProviderStrategy.cache: the entries in insertion order
  calls,          \* the executeWithBestProvider calls, one per slot
  audit,          \* history: what the calls so far asked for and were charged
  chain,          \* the chain as the endpoints report it: its head and the blocks with logs
  headSub,        \* one onNewHeads subscription in polling mode
  logSub,         \* one subscribeLogs subscription
  loading,        \* CuTracker.bootstrap: the loadFromDisk in flight and what it read
  manager,        \* ResilientProviderManager: ready, the probes, the runtime of a provider
  invocations,    \* the executor invocations of withProvider, one per slot
  monitor,        \* CuMonitor: timer, debounceTimer, latest, and history counters
  retry           \* one callRpc / withRetry call: where it is, and what it saw

trackerVars == <<tracker, registration, persistPromise, writes, file, seq, fileSeq, win, monthSum>>
statusVars == <<statusArgs, statusLevel>>
countersVars == <<cstate, countersFile, flushNowCall, waitCall, history>>
strategyVars == <<providers, strategy, cache, calls, audit>>
subscriptionVars == <<chain, headSub, logSub>>
serviceVars == <<loading, manager, invocations, monitor, retry>>
vars == <<now, last, trackerVars, statusVars, countersVars, strategyVars, subscriptionVars, serviceVars>>
\* what the operations of the CuTracker class never touch
beyondTracker == <<statusVars, countersVars, strategyVars, subscriptionVars, serviceVars>>
\* what computeStatusLevel never touches
beyondStatus == <<now, last, trackerVars, countersVars, strategyVars, subscriptionVars, serviceVars>>
\* what the module-level counters never touch
beyondCounters == <<now, last, trackerVars, statusVars, strategyVars, subscriptionVars, serviceVars>>

(***************************************************************************)
(* cuTracker.ts, the CuTracker class: pure helpers.                        *)
(***************************************************************************)
\* Dates are ISO strings in the source; the model keeps the day and the month
\* numbers, which are equal exactly when the strings are.
todayKey(t) == t \div TicksPerDay
monthKey(t) == (t \div TicksPerDay) \div DaysPerMonth

\* The method arguments the model passes, and what normaliseMethod makes of them
\* ((method ?? "custom").trim().toLowerCase()).
MethodInputs == {"eth_uninstallfilter", " ETH_UninstallFilter", "undefined"}
normaliseMethod(method) ==
  CASE method = "undefined" -> "custom"
    [] method = " ETH_UninstallFilter" -> "eth_uninstallfilter"
    [] OTHER -> method
MethodKeys == {normaliseMethod(m) : m \in MethodInputs}

\* METHOD_CU_ESTIMATES.get(key) ?? fallback, for the keys the model uses.
DefaultFallbackCu == 26
UninstallFilterCu == 5
estimateMethodCu(method) ==
  IF normaliseMethod(method) = "eth_uninstallfilter" THEN UninstallFilterCu ELSE DefaultFallbackCu

\* Costs are passed in halves of a unit, so that Math.floor is not the identity:
\* Floor2(3) = 1 is Math.floor(1.5).
Floor2(h) == h \div 2

\* Math.max(0, Math.floor(cuOverride ?? estimateMethodCu(method)))
estimatedCost(method, hasOverride, cuHalves) ==
  Max(0, IF hasOverride THEN Floor2(cuHalves) ELSE estimateMethodCu(method))

ZeroByMethod == [k \in MethodKeys |-> 0]

FreshUsage(t) ==
  [dailyUsed |-> 0, monthlyUsed |-> 0, requestCount |-> 0,
   lastDailyReset |-> todayKey(t), lastMonthlyReset |-> monthKey(t),
   cuByMethod |-> ZeroByMethod, cacheHits |-> 0, cacheSavedCu |-> 0]

\* Mutation: the daily reset forgets the cache counters.
maybeResetDaily_KeepsCacheHits(state, t) ==
  IF state.lastDailyReset # todayKey(t)
    THEN [state EXCEPT !.dailyUsed = 0, !.requestCount = 0,
                       !.cuByMethod = ZeroByMethod, !.lastDailyReset = todayKey(t)]
    ELSE state

maybeResetDaily(state, t) ==
  IF state.lastDailyReset # todayKey(t)
    THEN [state EXCEPT !.dailyUsed = 0, !.requestCount = 0, !.cacheHits = 0,
                       !.cacheSavedCu = 0, !.cuByMethod = ZeroByMethod,
                       !.lastDailyReset = todayKey(t)]
    ELSE state

maybeResetMonthly(state, t) ==
  IF state.lastMonthlyReset # monthKey(t)
    THEN [state EXCEPT !.monthlyUsed = 0, !.lastMonthlyReset = monthKey(t)]
    ELSE state

maybeReset(state, t) == maybeResetMonthly(maybeResetDaily(state, t), t)

\* Mutation: the daily total is assigned, not accumulated.
addUsage_Assigns(state, key, estimated) ==
  [state EXCEPT !.dailyUsed = estimated, !.monthlyUsed = @ + estimated,
                !.requestCount = @ + 1, !.cuByMethod[key] = @ + estimated]

\* The counters of `name` after recordUsage's additions (lines 338-342).
addUsage(state, key, estimated) ==
  [state EXCEPT !.dailyUsed = @ + estimated, !.monthlyUsed = @ + estimated,
                !.requestCount = @ + 1, !.cuByMethod[key] = @ + estimated]

\* Mutation: a cache hit is charged to the daily and monthly totals.
addCacheHit_ChargesUsage(state, cuSavedHalves) ==
  [state EXCEPT !.cacheHits = @ + 1,
                !.cacheSavedCu = @ + Max(0, Floor2(cuSavedHalves)),
                !.dailyUsed = @ + Max(0, Floor2(cuSavedHalves)),
                !.monthlyUsed = @ + Max(0, Floor2(cuSavedHalves))]

\* The counters of `name` after recordCacheHit's additions (lines 353-354).
addCacheHit(state, cuSavedHalves) ==
  [state EXCEPT !.cacheHits = @ + 1,
                !.cacheSavedCu = @ + Max(0, Floor2(cuSavedHalves))]

\* Mutation: the projected totals must stay strictly below the limits.
canUseVerdict_Strict(state, reg, cuNeeded, allowNear, ignoreDaily, ignoreMonthly) ==
  LET dailyOk == IF ignoreDaily THEN TRUE
                 ELSE state.dailyUsed + cuNeeded < reg.dailyLimit
                      \/ (allowNear /\ state.dailyUsed < reg.dailyLimit)
      monthlyOk == IF ignoreMonthly THEN TRUE
                   ELSE state.monthlyUsed + cuNeeded < reg.monthlyLimit
                        \/ (allowNear /\ state.monthlyUsed < reg.monthlyLimit)
  IN dailyOk /\ monthlyOk

\* canUse's verdict on the counters left by maybeReset (lines 383-389).
canUseVerdict(state, reg, cuNeeded, allowNear, ignoreDaily, ignoreMonthly) ==
  LET nextDaily == state.dailyUsed + cuNeeded
      nextMonthly == state.monthlyUsed + cuNeeded
      dailyOk == IF ignoreDaily THEN TRUE
                 ELSE nextDaily <= reg.dailyLimit
                      \/ (allowNear /\ state.dailyUsed < reg.dailyLimit)
      monthlyOk == IF ignoreMonthly THEN TRUE
                   ELSE nextMonthly <= reg.monthlyLimit
                        \/ (allowNear /\ state.monthlyUsed < reg.monthlyLimit)
  IN dailyOk /\ monthlyOk

\* computeStatusLevel on percentages given as fractions n/d (d > 0), thresholds in
\* whole percent; emergencyThreshold * 0.9 is 9 * emergencyThreshold / 10.
FracGE(n, d, k, kd) == n * kd >= k * d
computeStatusLevel_AlertFromEmergency(dn, dd, mn, md, alertThreshold, emergencyThreshold) ==
  LET dailyIsMax == dn * md >= mn * dd
      n == IF dailyIsMax THEN dn ELSE mn
      d == IF dailyIsMax THEN dd ELSE md
  IN IF FracGE(n, d, 100, 1) THEN "exhausted"
     ELSE IF FracGE(n, d, emergencyThreshold, 1) THEN "emergency"
     ELSE IF FracGE(n, d, alertThreshold, 1) /\ FracGE(n, d, emergencyThreshold, 1)
       THEN "alert"
     ELSE IF FracGE(n, d, alertThreshold, 1) THEN "warning"
     ELSE "healthy"

computeStatusLevel(dn, dd, mn, md, alertThreshold, emergencyThreshold) ==
  LET dailyIsMax == dn * md >= mn * dd
      n == IF dailyIsMax THEN dn ELSE mn
      d == IF dailyIsMax THEN dd ELSE md
  IN IF FracGE(n, d, 100, 1) THEN "exhausted"
     ELSE IF FracGE(n, d, emergencyThreshold, 1) THEN "emergency"
     ELSE IF FracGE(n, d, alertThreshold, 1) /\ FracGE(n, d, 9 * emergencyThreshold, 10)
       THEN "alert"
     ELSE IF FracGE(n, d, alertThreshold, 1) THEN "warning"
     ELSE "healthy"

\* registerProvider's clamping of the two thresholds (lines 297-300); has* is
\* FALSE for a registration that gives none.
DefaultAlertThreshold == 80
DefaultEmergencyThreshold == 95
clampedAlert(hasAlert, alert) ==
  Max(1, Min(100, IF hasAlert THEN alert ELSE DefaultAlertThreshold))
clampedEmergency(hasAlert, alert, hasEmergency, emergency) ==
  Max(clampedAlert(hasAlert, alert),
      Min(100, IF hasEmergency THEN emergency ELSE DefaultEmergencyThreshold))

(***************************************************************************)
(* providerStrategy.ts: values and pure helpers.  Times are in ticks of    *)
(* 15 seconds.  Timestamps kept only for reporting (lastSuccessAt,         *)
(* lastFailureAt, lastSelectedAt, createdAt, emergencySince), the average  *)
(* latency and the events other than emergency-mode-changed are left out.  *)
(***************************************************************************)
\* executeWithBestProvider calls in one behaviour
MaxCalls == 3
\* the calls that can be in flight together
Slots == {1, 2}
\* an option that is not given
Undefined == -1
PROVIDER_FAILURE_THRESHOLD == 3
\* PROVIDER_OFFLINE_COOLDOWN_MS, 45 seconds
OfflineCooldown == 3
\* CACHE_BASE_TTL_SECONDS, 30 seconds
CacheBaseTtl == 2
CACHE_MAX_SIZE == 10
EMERGENCY_PROVIDER_COUNT == 2
EMERGENCY_DAILY_THRESHOLD == 95
EMERGENCY_MONTHLY_THRESHOLD == 95
CacheKeys == {"k1", "k2"}

\* Array.prototype.sort with a comparator that puts x before y iff lt[x, y]:
\* the sort is stable.
RECURSIVE InsertSorted(_, _, _)
InsertSorted(sorted, x, lt) ==
  IF sorted = <<>> THEN <<x>>
  ELSE IF lt[x, Head(sorted)] THEN <<x>> \o sorted
  ELSE <<Head(sorted)>> \o InsertSorted(Tail(sorted), x, lt)
RECURSIVE StableSort(_, _)
StableSort(s, lt) ==
  IF s = <<>> THEN <<>>
  ELSE InsertSorted(StableSort(SubSeq(s, 1, Len(s) - 1), lt), s[Len(s)], lt)

Range(s) == {s[i] : i \in 1..Len(s)}
RECURSIVE SelectNames(_, _)
SelectNames(s, keep) ==
  IF s = <<>> THEN <<>>
  ELSE (IF Head(s) \in keep THEN <<Head(s)>> ELSE <<>>) \o SelectNames(Tail(s), keep)

\* what configureProviders stores for a definition not seen before (lines 152-159)
NewProviderState(priority, role, emergencyOnly, costWeight) ==
  [priority |-> priority, role |-> role, emergencyOnly |-> emergencyOnly,
   costWeight |-> costWeight, health |-> "healthy", consecutiveFailures |-> 0, totalFailures |-> 0,
   totalSuccesses |-> 0, offlineUntil |-> 0]

\* the options of a call; method and cuOverride (in halves of a unit) with them
DefaultOptions ==
  [method |-> "undefined", hasOverride |-> TRUE, cuHalves |-> 2,
   cacheKey |-> "none", ttlSeconds |-> Undefined, forceProvider |-> "none",
   preferredProvider |-> "none", allowNearLimit |-> FALSE,
   respectEmergencyRestrictions |-> TRUE, maxAttempts |-> Undefined,
   maxProviderAttempts |-> Undefined, emergencyBypass |-> FALSE]

\* a slot with no call in flight.  id is history: the number of the call.
\* lastError is the attempt whose rejection it holds, 0 when undefined.
\* The candidates of a call are references to ProviderState objects: age is 0
\* while these are the objects of the providers map, and otherwise tells the
\* objects of the maps replaced since apart (calls of the same age hold the
\* same objects), objs being those objects as they are now.  lost is
\* history: the candidates deleted from the map since the call started.
IdleSlot ==
  [pc |-> "idle", id |-> 0, opts |-> DefaultOptions, estimatedCu |-> 0,
   candidates |-> <<>>, idx |-> 0, i |-> 0, attempt |-> 0, maxAttempts |-> 0,
   providerAttempts |-> 0, lastError |-> 0, age |-> 0, objs |-> <<>>, lost |-> {}]

\* history: how the call that ended last ended.  A value is the number of the
\* call whose executor produced it; the error of an executor is the number of
\* the attempt that it rejected (cause).
NoReturn ==
  [id |-> 0, outcome |-> "none", result |-> 0, key |-> "none", attempt |-> 0,
   servedBy |-> "none", error |-> "none", cause |-> 0]

ZeroCacheStats == [hits |-> 0, misses |-> 0, stored |-> 0, evictions |-> 0, savedCu |-> 0]

\* Math.max(1, Math.floor(options.cuOverride ?? estimateMethodCu(methodName)))
estimatedCuOf(opts) ==
  Max(1, IF opts.hasOverride THEN Floor2(opts.cuHalves) ELSE estimateMethodCu(opts.method))

\* scoreFromUsage(a) - scoreFromUsage(b) > 0, on exact fractions
remainingNum(used, limit) == IF limit = 0 THEN 0 ELSE limit - used
remainingDen(limit) == IF limit = 0 THEN 1 ELSE limit
scoreNum_DailyOnly(st, reg) ==
  2 * remainingNum(st.dailyUsed, reg.dailyLimit) * remainingDen(reg.monthlyLimit)
scoreNum(st, reg) ==
  remainingNum(st.dailyUsed, reg.dailyLimit) * remainingDen(reg.monthlyLimit)
    + remainingNum(st.monthlyUsed, reg.monthlyLimit) * remainingDen(reg.dailyLimit)
scoreDen(reg) == remainingDen(reg.dailyLimit) * remainingDen(reg.monthlyLimit)
scoreGreater(sa, ra, sb, rb) == scoreNum(sa, ra) * scoreDen(rb) > scoreNum(sb, rb) * scoreDen(ra)

handleSuccess(ps) ==
  [ps EXCEPT !.totalSuccesses = @ + 1, !.consecutiveFailures = 0, !.health = "healthy"]

handleFailure_StaleCount(ps, t) ==
  LET failures == ps.consecutiveFailures + 1
  IN IF ps.consecutiveFailures >= PROVIDER_FAILURE_THRESHOLD
       THEN [ps EXCEPT !.consecutiveFailures = failures, !.totalFailures = @ + 1,
                       !.health = "offline", !.offlineUntil = t + OfflineCooldown]
       ELSE [ps EXCEPT !.consecutiveFailures = failures, !.totalFailures = @ + 1,
                       !.health = "degraded"]
handleFailure(ps, t) ==
  LET failures == ps.consecutiveFailures + 1
  IN IF failures >= PROVIDER_FAILURE_THRESHOLD
       THEN [ps EXCEPT !.consecutiveFailures = failures, !.totalFailures = @ + 1,
                       !.health = "offline", !.offlineUntil = t + OfflineCooldown]
       ELSE [ps EXCEPT !.consecutiveFailures = failures, !.totalFailures = @ + 1,
                       !.health = "degraded"]

\* resolveCacheTtlSeconds(ttlOverride), caching enabled; aggressive is
\* AGGRESSIVE_CACHING.  Math.floor of the TTL in seconds: ticks times 15.
resolveCacheTtlSeconds(ttlOverride, aggressive, emergencyActive) ==
  IF ttlOverride # Undefined /\ ttlOverride > 0 THEN ttlOverride
  ELSE LET ttl0 == CacheBaseTtl * 15
           ttl1 == IF aggressive THEN Max(ttl0, (CacheBaseTtl * 15 * 3) \div 2) ELSE ttl0
           ttl2 == IF emergencyActive THEN Max(ttl1, CacheBaseTtl * 15 * 2) ELSE ttl1
       IN ttl2 \div 15

\* entry.expiresAt > Date.now() (line 255)
cacheLive_AtExpiry(entry, t) == entry.expiresAt >= t
cacheLive(entry, t) == entry.expiresAt > t

\* Map.get, Map.delete and Map.set on the cache, a sequence in insertion order
cacheIndex(c, key) ==
  IF \E i \in 1..Len(c) : c[i].key = key THEN CHOOSE i \in 1..Len(c) : c[i].key = key ELSE 0
cacheDelete(c, key) ==
  LET kept == {i \in 1..Len(c) : c[i].key # key}
  IN [j \in 1..Cardinality(kept) |->
        c[CHOOSE i \in kept : Cardinality({h \in kept : h < i}) = j - 1]]
cacheSet(c, entry) ==
  IF cacheIndex(c, entry.key) = 0 THEN Append(c, entry)
  ELSE [c EXCEPT ![cacheIndex(c, entry.key)] = entry]

\* enforceCacheLimit(): the cache, the number of evictions and the entries evicted
RECURSIVE deleteKeys(_, _)
deleteKeys(c, keys) ==
  IF keys = <<>> THEN c ELSE deleteKeys(cacheDelete(c, Head(keys)), Tail(keys))
enforceCacheLimit_InsertionOrder(c) ==
  IF Len(c) <= CACHE_MAX_SIZE THEN [cache |-> c, evicted |-> 0, gone |-> {}]
  ELSE LET removeCount == Len(c) - CACHE_MAX_SIZE
       IN [cache |-> SubSeq(c, removeCount + 1, Len(c)), evicted |-> removeCount,
           gone |-> {[key |-> c[i].key, expiresAt |-> c[i].expiresAt] : i \in 1..removeCount}]
enforceCacheLimit(c) ==
  IF Len(c) <= CACHE_MAX_SIZE THEN [cache |-> c, evicted |-> 0, gone |-> {}]
  ELSE LET keys == [i \in 1..Len(c) |-> c[i].key]
           expires == [k \in Range(keys) |-> c[cacheIndex(c, k)].expiresAt]
           lt == [pr \in Range(keys) \X Range(keys) |-> expires[pr[1]] < expires[pr[2]]]
           removeCount == Len(c) - CACHE_MAX_SIZE
           removed == SubSeq(StableSort(keys, lt), 1, removeCount)
       IN [cache |-> deleteKeys(c, removed), evicted |-> removeCount,
           gone |-> {[key |-> k, expiresAt |-> expires[k]] : k \in Range(removed)}]

\* every provider of the tracker after getUsage's maybeReset
resetNames(tr, names, t) ==
  [n \in DOMAIN tr |-> IF n \in names THEN maybeReset(tr[n], t) ELSE tr[n]]

(***************************************************************************)
(* The state of the components a specification does not drive.             *)
(***************************************************************************)
ZeroCounters == [usage |-> 0, cacheHits |-> 0]
NoRun == [stage |-> "none", snapshot |-> ZeroCounters, sver |-> 0]
\* fver is history: the version of the counters the file holds (1: the initial ones)
NoFile == [exists |-> FALSE, data |-> ZeroCounters, fver |-> 1]
IdleCall == [pc |-> "idle", callVer |-> 0, overlapped |-> FALSE, sawVer |-> 0,
             sawTimer |-> FALSE, sawFlush |-> FALSE, sawDirty |-> FALSE,
             sawFile |-> NoFile, sawCounters |-> ZeroCounters]

\* no subscription has been made
TickSlots == {1, 2}
NoHeadSub ==
  [running |-> FALSE, timer |-> FALSE, last |-> -1, ticks |-> [k \in TickSlots |-> "idle"],
   handled |-> -1, parity |-> 0, unsubscribed |-> FALSE]
NoLogTick == [pc |-> "idle", latest |-> 0, from |-> 0]
NoLogSub ==
  [running |-> FALSE, timer |-> FALSE, fromLag |-> 0, lastSeen |-> 0,
   ticks |-> [k \in TickSlots |-> NoLogTick], delivered |-> <<>>, unsubscribed |-> FALSE]
\* no load of the storage file in flight
NoLoad == [pc |-> "idle", stored |-> <<>>, latest |-> <<>>]
\* a manager whose bootstrap has not run
NoManager == [ready |-> "none", cfg |-> 0, probes |-> <<>>, runtimes |-> <<>>, answered |-> {}]
\* a slot with no withProvider call; start and walked are history: httpIndex
\* when the executor was invoked and the endpoints it called since
NoInvocation ==
  [pc |-> "idle", maxProviderAttempts |-> 0, name |-> "none", tries |-> 0, i |-> 0,
   idx |-> 0, start |-> 0, walked |-> <<>>]
\* a monitor that was never started and has seen no event
\* pending is the number of debounce timeouts set and neither fired nor cleared;
\* computed, events, windows, debounced, cancelled and stopped are history
NoMonitor ==
  [timer |-> FALSE, debounceTimer |-> FALSE, pending |-> 0, latest |-> 0, computed |-> 0,
   events |-> 0, windows |-> 0, debounced |-> 0, cancelled |-> 0, stopped |-> FALSE]
NoError == [id |-> 0, code |-> 0, phrase |-> "none"]
NoRetry ==
  [pc |-> "idle", attempt |-> 0, maxRetries |-> 0, invoked |-> 0, lastError |-> NoError,
   thrown |-> NoError]
InitServicesIdle ==
  /\ loading = NoLoad
  /\ manager = NoManager
  /\ invocations = <<>>
  /\ monitor = NoMonitor
  /\ retry = NoRetry

InitSubscriptionsIdle ==
  /\ chain = [tip |-> 0, withLogs |-> {}]
  /\ headSub = NoHeadSub
  /\ logSub = NoLogSub

InitStatusIdle ==
  /\ statusArgs = [daily |-> <<0, 1>>, monthly |-> <<0, 1>>,
                   alertThreshold |-> DefaultAlertThreshold,
                   emergencyThreshold |-> DefaultEmergencyThreshold]
  /\ statusLevel = "none"

\* configureProviders([p1 primary, p2 secondary]) on a new ProviderStrategy
\* history: stored is, per cache key, the call that stored the entry last
\* (its number, the time and its ttlSeconds); gone is what the last store
\* evicted; tick is the parity of the number of calls of forceEmergencyMode,
\* configureProviders and the interval callback; emitted is the contexts of the
\* emergency-mode-changed events that the last operation of the strategy emitted
NoAudit ==
  [started |-> 0, everAllowNear |-> FALSE, everStrict |-> FALSE, returned |-> NoReturn,
   overGrants |-> [n \in Registered |-> [day |-> 0, n |-> 0]],
   stored |-> <<>>, gone |-> {}, tick |-> 0, emitted |-> <<>>]
\* keys is the insertion order of the providers map, name is DEFAULT_STRATEGY,
\* aggressive is AGGRESSIVE_CACHING, timer tells whether start() has set the
\* interval
TwoProviders ==
  [n \in Registered |->
     IF n = "p1" THEN NewProviderState(1, "primary", FALSE, Undefined)
     ELSE NewProviderState(2, "secondary", FALSE, Undefined)]
NewStrategy ==
  [keys |-> <<"p1", "p2">>, name |-> "capacity_based", aggressive |-> FALSE,
   timer |-> FALSE, emergencyActive |-> FALSE, manualEmergency |-> FALSE,
   roundRobinCounter |-> 0, cacheStats |-> ZeroCacheStats]
InitStrategyIdle ==
  /\ providers = TwoProviders
  /\ strategy = NewStrategy
  /\ cache = <<>>
  /\ calls = [c \in Slots |-> IdleSlot]
  /\ audit = NoAudit

InitCountersIdle ==
  /\ cstate = [counters |-> ZeroCounters, dirty |-> FALSE,
               pendingTimer |-> FALSE, flushPromise |-> FALSE, run |-> NoRun]
  /\ countersFile = NoFile
  /\ flushNowCall = IdleCall
  /\ waitCall = IdleCall
  /\ history = <<ZeroCounters>>


(***************************************************************************)
(* cuTracker.ts, the CuTracker class: state and operations.                *)
(***************************************************************************)
\* What registerProvider stores for the two configured providers (thresholds
\* clamped, lines 297-300).
InitRegistration ==
  [n \in Registered |->
     [dailyLimit |-> IF n = "p1" THEN 3 ELSE 2,
      monthlyLimit |-> IF n = "p1" THEN 4 ELSE 3,
      alertThreshold |-> clampedAlert(FALSE, 0),
      emergencyThreshold |-> clampedEmergency(FALSE, 0, FALSE, 0)]]

NoPayload == [n \in {} |-> 0]

\* A call and its result, as `last` keeps them.
NoCall ==
  [op |-> "none", name |-> "px", cuNeeded |-> 0, allowNear |-> FALSE,
   ignoreDaily |-> FALSE, ignoreMonthly |-> FALSE, result |-> FALSE,
   status |-> "healthy", cost |-> 0]

ZeroWindow == [sum |-> 0, sumC |-> 0, n |-> 0, hits |-> 0, saved |-> 0, byMethod |-> ZeroByMethod, clean |-> TRUE]

\* schedulePersist(force): the job list and persistPromise it leaves.  The async
\* body runs up to its first await (ensureDir) at once; this.persistPromise becomes
\* the new promise.
schedulePersistWrites(force) ==
  IF persistPromise /\ ~force THEN writes
  ELSE Append(writes, [stage |-> "mkdir", payload |-> NoPayload, pseq |-> 0])
schedulePersistPromise(force) ==
  IF persistPromise /\ ~force THEN persistPromise ELSE TRUE

\* recordUsage(providerName, method, cuOverride)
recordUsage(name, method, hasOverride, cuHalves) ==
  LET estimated == estimatedCost(method, hasOverride, cuHalves)
      key == normaliseMethod(method)
  IN /\ seq < MaxSeq
     /\ last' = [NoCall EXCEPT !.op = "recordUsage", !.name = name]
     /\ IF name \notin DOMAIN tracker
          THEN UNCHANGED <<tracker, persistPromise, writes, seq, win, monthSum>>
          ELSE LET state == maybeReset(tracker[name], now)
               IN /\ state.requestCount < MaxRequests
                  /\ state.monthlyUsed + estimated <= MaxUsed
                  /\ state.dailyUsed + estimated <= MaxUsed
                  /\ tracker' = [tracker EXCEPT ![name] = addUsage(state, key, estimated)]
                  /\ writes' = schedulePersistWrites(FALSE)
                  /\ persistPromise' = schedulePersistPromise(FALSE)
                  /\ seq' = seq + 1
                  /\ win' = [win EXCEPT ![name] =
                       [@ EXCEPT !.sum = @ + estimated, !.n = @ + 1,
                                 !.sumC = @ + (IF cuHalves >= 0 THEN cuHalves \div 2 ELSE 0),
                                 !.byMethod[key] = @ + estimated,
                                 !.clean = @ /\ hasOverride /\ cuHalves >= 0
                                             /\ cuHalves % 2 = 0]]
                  /\ monthSum' = [monthSum EXCEPT ![name] = @ + estimated]
     /\ UNCHANGED <<beyondTracker, now, registration, file, fileSeq>>

\* recordCacheHit(providerName, cuSaved)
recordCacheHit(name, cuSavedHalves) ==
  /\ seq < MaxSeq
  /\ last' = [NoCall EXCEPT !.op = "recordCacheHit", !.name = name]
  /\ IF name \notin DOMAIN tracker
       THEN UNCHANGED <<tracker, persistPromise, writes, seq, win>>
       ELSE LET state == maybeReset(tracker[name], now)
            IN /\ state.cacheHits < MaxCacheHits
               /\ tracker' = [tracker EXCEPT ![name] = addCacheHit(state, cuSavedHalves)]
               /\ writes' = schedulePersistWrites(FALSE)
               /\ persistPromise' = schedulePersistPromise(FALSE)
               /\ seq' = seq + 1
               /\ win' = [win EXCEPT ![name] =
                    [@ EXCEPT !.hits = @ + 1, !.saved = @ + Max(0, Floor2(cuSavedHalves))]]
  /\ UNCHANGED <<beyondTracker, now, registration, file, fileSeq, monthSum>>

\* canUse(providerName, cuNeeded, options)
canUse(name, cuNeeded, allowNear, ignoreDaily, ignoreMonthly) ==
  /\ last' = [NoCall EXCEPT !.op = "canUse", !.name = name, !.cuNeeded = cuNeeded,
                !.allowNear = allowNear, !.ignoreDaily = ignoreDaily,
                !.ignoreMonthly = ignoreMonthly,
                !.result = IF name \notin DOMAIN tracker THEN FALSE
                           ELSE canUseVerdict(maybeReset(tracker[name], now),
                                              registration[name], cuNeeded,
                                              allowNear, ignoreDaily, ignoreMonthly)]
  /\ tracker' = IF name \notin DOMAIN tracker THEN tracker
                ELSE [tracker EXCEPT ![name] = maybeReset(@, now)]
  /\ UNCHANGED <<beyondTracker, now, registration, persistPromise, writes, file, seq, fileSeq, win, monthSum>>

\* The status getUsage reports for counters `state` (lines 441-445).
usageStatus(state, reg) ==
  computeStatusLevel(IF reg.dailyLimit = 0 THEN 0 ELSE 100 * state.dailyUsed,
                     IF reg.dailyLimit = 0 THEN 1 ELSE reg.dailyLimit,
                     IF reg.monthlyLimit = 0 THEN 0 ELSE 100 * state.monthlyUsed,
                     IF reg.monthlyLimit = 0 THEN 1 ELSE reg.monthlyLimit,
                     reg.alertThreshold, reg.emergencyThreshold)

\* getUsage(providerName)
getUsage(name) ==
  /\ last' = [NoCall EXCEPT !.op = "getUsage", !.name = name,
                !.status = IF name \notin DOMAIN tracker THEN "healthy"
                           ELSE usageStatus(maybeReset(tracker[name], now), registration[name])]
  /\ tracker' = IF name \notin DOMAIN tracker THEN tracker
                ELSE [tracker EXCEPT ![name] = maybeReset(@, now)]
  /\ UNCHANGED <<beyondTracker, now, registration, persistPromise, writes, file, seq, fileSeq, win, monthSum>>

\* resetProvider(providerName): zero the counters, then schedulePersist(true).
resetProvider(name) ==
  /\ seq < MaxSeq
  /\ last' = [NoCall EXCEPT !.op = "resetProvider", !.name = name]
  /\ IF name \notin DOMAIN tracker
       THEN UNCHANGED <<tracker, persistPromise, writes, seq, win, monthSum>>
       ELSE /\ Len(writes) < MaxWrites
            /\ tracker' = [tracker EXCEPT ![name] = FreshUsage(now)]
            /\ writes' = schedulePersistWrites(TRUE)
            /\ persistPromise' = schedulePersistPromise(TRUE)
            /\ seq' = seq + 1
            /\ win' = [win EXCEPT ![name] = ZeroWindow]
            /\ monthSum' = [monthSum EXCEPT ![name] = 0]
  /\ UNCHANGED <<beyondTracker, now, registration, file, fileSeq>>

\* resetAll(): resetProvider for every key, each with its own forced write.
RECURSIVE ForcedJobs(_)
ForcedJobs(k) ==
  IF k = 0 THEN <<>>
  ELSE Append(ForcedJobs(k - 1), [stage |-> "mkdir", payload |-> NoPayload, pseq |-> 0])
resetAll ==
  /\ seq < MaxSeq
  /\ Len(writes) + Cardinality(DOMAIN tracker) <= MaxWrites
  /\ last' = [NoCall EXCEPT !.op = "resetAll"]
  /\ tracker' = [n \in DOMAIN tracker |-> FreshUsage(now)]
  /\ writes' = writes \o ForcedJobs(Cardinality(DOMAIN tracker))
  /\ persistPromise' = (persistPromise \/ DOMAIN tracker # {})
  /\ seq' = seq + 1
  /\ win' = [n \in DOMAIN win |-> ZeroWindow]
  /\ monthSum' = [n \in DOMAIN monthSum |-> 0]
  /\ UNCHANGED <<beyondTracker, now, registration, file, fileSeq>>

\* The async body of schedulePersist after `await ensureDir`: the payload is built
\* from the counters as they are now (lines 560-578) and writeFile is issued.
ensureDirDone(i) ==
  /\ writes[i].stage = "mkdir"
  /\ writes' = [writes EXCEPT ![i] = [stage |-> "write", payload |-> tracker, pseq |-> seq]]
  /\ UNCHANGED <<beyondTracker, now, last, tracker, registration, persistPromise, file, seq, fileSeq, win, monthSum>>

RemoveAt(s, i) == [j \in 1..(Len(s) - 1) |-> IF j < i THEN s[j] ELSE s[j + 1]]

\* fs.writeFile of job i completes (lines 579-581).  Jobs started by forced calls
\* overlap on the same file and complete in any order; the file holds the payload
\* of the job that completes last.
writeFileDone(i) ==
  /\ writes[i].stage = "write"
  /\ file' = writes[i].payload
  /\ fileSeq' = writes[i].pseq
  /\ persistPromise' = FALSE
  /\ writes' = RemoveAt(writes, i)
  /\ UNCHANGED <<beyondTracker, now, last, tracker, registration, seq, win, monthSum>>

\* The wall clock advances by d ticks.
advanceClock(d) ==
  /\ now + d <= MaxNow
  /\ now' = now + d
  /\ last' = NoCall
  /\ win' = IF todayKey(now + d) # todayKey(now)
              THEN [n \in DOMAIN win |-> ZeroWindow] ELSE win
  /\ monthSum' = IF monthKey(now + d) # monthKey(now)
                   THEN [n \in DOMAIN monthSum |-> 0] ELSE monthSum
  /\ UNCHANGED <<beyondTracker, tracker, registration, persistPromise, writes, file, seq, fileSeq>>

CuHalves == {-1, 2, 3, 4}
NeedValues == {1, 2}
\* The tracker specification registers one provider and also calls with a name
\* that is not registered.
TrackerNames == {"p1", "px"}

InitTracker ==
  /\ now = 0
  /\ tracker = [n \in {"p1"} |-> FreshUsage(0)]
  /\ registration = [n \in {"p1"} |-> InitRegistration[n]]
  /\ persistPromise = FALSE
  /\ writes = <<>>
  /\ file = NoPayload
  /\ last = NoCall
  /\ seq = 0
  /\ fileSeq = 0
  /\ win = [n \in {"p1"} |-> ZeroWindow]
  /\ monthSum = [n \in {"p1"} |-> 0]

\* The calls of the tracker, issued while no write of the storage file is in
\* flight; the clock moves a day at a time.
NextTracker ==
  \/ \E name \in TrackerNames, method \in MethodInputs, hasOverride \in BOOLEAN, cu \in CuHalves :
       writes = <<>> /\ recordUsage(name, method, hasOverride, cu)
  \/ \E name \in TrackerNames, cu \in CuHalves : writes = <<>> /\ recordCacheHit(name, cu)
  \/ \E name \in TrackerNames, need \in NeedValues,
        opt \in {"none", "allowNearLimit", "ignoreDaily", "ignoreMonthly"} :
       writes = <<>> /\ canUse(name, need, opt = "allowNearLimit", opt = "ignoreDaily",
                               opt = "ignoreMonthly")
  \/ \E name \in TrackerNames : writes = <<>> /\ getUsage(name)
  \/ \E name \in TrackerNames : writes = <<>> /\ resetProvider(name)
  \/ writes = <<>> /\ resetAll
  \/ \E i \in 1..Len(writes) : ensureDirDone(i)
  \/ \E i \in 1..Len(writes) : writeFileDone(i)
  \/ advanceClock(TicksPerDay)

InitTrackerSpec == InitTracker /\ InitStatusIdle /\ InitCountersIdle /\ InitStrategyIdle /\ InitSubscriptionsIdle /\ InitServicesIdle
SpecTracker == InitTrackerSpec /\ [][NextTracker]_vars

(***************************************************************************)
(* Claims about the CuTracker class, checked under SpecTracker.            *)
(***************************************************************************)
InDay(p) == tracker[p].lastDailyReset = todayKey(now)
InMonth(p) == tracker[p].lastMonthlyReset = monthKey(now)

\* C2: within one reset window, after N calls recordUsage(p, m, c) with integer
\* c >= 0 on a registered provider p, dailyUsed(p) is the sum of the c and
\* requestCount(p) is N.
C2_RecordUsageSums ==
  \A p \in DOMAIN tracker :
    (win[p].clean /\ InDay(p)) =>
      /\ tracker[p].dailyUsed = win[p].sumC
      /\ tracker[p].requestCount = win[p].n

\* C2 witness: three calls with costs 1 and 2 have been summed in one window.
C2_Witness ==
  \E p \in DOMAIN tracker :
    /\ win[p].clean /\ InDay(p)
    /\ win[p].n = 3 /\ win[p].sumC = 4
    /\ tracker[p].dailyUsed = 4

\* C3: without options, canUse(p, need) on a registered provider is false exactly
\* when dailyUsed + need > dailyLimit or monthlyUsed + need > monthlyLimit.
C3_CanUseIffWithinLimits ==
  (last.op = "canUse" /\ last.name \in DOMAIN tracker
     /\ ~last.allowNear /\ ~last.ignoreDaily /\ ~last.ignoreMonthly) =>
    (last.result = FALSE <=>
       \/ tracker[last.name].dailyUsed + last.cuNeeded > registration[last.name].dailyLimit
       \/ tracker[last.name].monthlyUsed + last.cuNeeded > registration[last.name].monthlyLimit)

\* C3 witness: need = dailyLimit - dailyUsed > 0 was asked for and allowed.
C3_Witness ==
  /\ last.op = "canUse" /\ last.name \in DOMAIN tracker
  /\ ~last.allowNear /\ ~last.ignoreDaily /\ ~last.ignoreMonthly
  /\ tracker[last.name].dailyUsed > 0
  /\ last.cuNeeded = registration[last.name].dailyLimit - tracker[last.name].dailyUsed
  /\ last.result = TRUE

\* C8: the daily counters are zeroed once per date change, at the first call on
\* the provider after the date has moved, and not otherwise; monthlyUsed is zeroed
\* once per month change and kept by a date change within the month.  After any
\* call on p the reset dates are the current ones, and from then on the counters
\* hold exactly what was recorded since the day (the month) began.
TrackerOps == {"recordUsage", "recordCacheHit", "canUse", "getUsage"}
C8_ResetOncePerDateChange ==
  \A p \in DOMAIN tracker :
    /\ (last.op \in TrackerOps /\ last.name = p) => (InDay(p) /\ InMonth(p))
    /\ InDay(p) =>
         /\ tracker[p].dailyUsed = win[p].sum
         /\ tracker[p].requestCount = win[p].n
         /\ tracker[p].cacheHits = win[p].hits
         /\ tracker[p].cacheSavedCu = win[p].saved
         /\ tracker[p].cuByMethod = win[p].byMethod
    /\ InMonth(p) => tracker[p].monthlyUsed = monthSum[p]

\* C8 witness: a call after a date change within the month found yesterday's
\* counters, zeroed them and kept the month's total.
C8_Witness ==
  \E p \in DOMAIN tracker :
    /\ last.op = "recordCacheHit" /\ last.name = p
    /\ todayKey(now) > 0 /\ monthKey(now) = 0
    /\ tracker[p].dailyUsed = 0 /\ tracker[p].requestCount = 0
    /\ tracker[p].cacheHits = 1
    /\ tracker[p].monthlyUsed > 0

(***************************************************************************)
(* The persistence of the CuTracker class: the mutating calls at any       *)
(* moment of the writes in flight, two providers, within one day.          *)
(***************************************************************************)
InitPersist ==
  /\ now = 0
  /\ tracker = [n \in Registered |-> FreshUsage(0)]
  /\ registration = InitRegistration
  /\ persistPromise = FALSE
  /\ writes = <<>>
  /\ file = NoPayload
  /\ last = NoCall
  /\ seq = 0
  /\ fileSeq = 0
  /\ win = [n \in Registered |-> ZeroWindow]
  /\ monthSum = [n \in Registered |-> 0]

NextPersist ==
  \/ \E name \in Names, cu \in {2, 3} : recordUsage(name, "undefined", TRUE, cu)
  \/ \E name \in Names : recordCacheHit(name, 2)
  \/ \E name \in Names : resetProvider(name)
  \/ resetAll
  \/ \E i \in 1..Len(writes) : ensureDirDone(i)
  \/ \E i \in 1..Len(writes) : writeFileDone(i)

InitPersistSpec == InitPersist /\ InitStatusIdle /\ InitCountersIdle /\ InitStrategyIdle /\ InitSubscriptionsIdle /\ InitServicesIdle
SpecPersist == InitPersistSpec /\ [][NextPersist]_vars

\* C5: every counter mutation reaches the disk: once no write is in flight, the
\* storage file holds exactly the counters in memory.
C5_EveryMutationWritten ==
  (writes = <<>> /\ seq > 0) => file = tracker

\* C7: after resetProvider(name) the counters of the provider are zero in memory,
\* and once every write has finished, with no mutation since, the storage file
\* records the zeroed counters.
C7_ResetReachesDisk ==
  (last.op = "resetProvider" /\ last.name \in DOMAIN tracker) =>
    /\ tracker[last.name] = FreshUsage(now)
    /\ writes = <<>> => (file # NoPayload /\ file[last.name] = FreshUsage(now))

(***************************************************************************)
(* computeStatusLevel as a function: one call on percentages and           *)
(* thresholds drawn from values around every band edge.                    *)
(***************************************************************************)
\* percentages as <<numerator, denominator>>
PercentInputs ==
  {<<0, 1>>, <<49, 1>>, <<50, 1>>, <<79, 1>>, <<80, 1>>, <<854, 10>>, <<855, 10>>,
   <<899, 10>>, <<90, 1>>, <<949, 10>>, <<95, 1>>, <<96, 1>>, <<999, 10>>,
   <<100, 1>>, <<120, 1>>}
\* thresholds as a registration gives them: <<given, value>>
AlertInputs == {<<FALSE, 0>>, <<TRUE, -5>>, <<TRUE, 50>>, <<TRUE, 90>>, <<TRUE, 100>>, <<TRUE, 150>>}
EmergencyInputs == {<<FALSE, 0>>, <<TRUE, 40>>, <<TRUE, 55>>, <<TRUE, 100>>, <<TRUE, 130>>}

InitStatus ==
  /\ InitTracker /\ InitCountersIdle /\ InitStrategyIdle /\ InitSubscriptionsIdle /\ InitServicesIdle
  /\ \E d \in PercentInputs, m \in PercentInputs, a \in AlertInputs, e \in EmergencyInputs :
       statusArgs = [daily |-> d, monthly |-> m,
                     alertThreshold |-> clampedAlert(a[1], a[2]),
                     emergencyThreshold |-> clampedEmergency(a[1], a[2], e[1], e[2])]
  /\ statusLevel = "none"

statusCall ==
  /\ statusLevel = "none"
  /\ statusLevel' = computeStatusLevel(statusArgs.daily[1], statusArgs.daily[2],
                                       statusArgs.monthly[1], statusArgs.monthly[2],
                                       statusArgs.alertThreshold, statusArgs.emergencyThreshold)
  /\ UNCHANGED <<statusArgs, beyondStatus>>

NextStatus == statusCall
SpecStatus == InitStatus /\ [][NextStatus]_vars

\* m = max(dailyPercent, monthlyPercent) in tenths of a percent (the inputs have
\* denominators 1 and 10)
Tenths(p) == (10 * p[1]) \div p[2]
MaxTenths == Max(Tenths(statusArgs.daily), Tenths(statusArgs.monthly))

\* C9: the status level is the band of m = max(dailyPercent, monthlyPercent):
\* exhausted from 100, else emergency from emergencyThreshold, else alert from
\* max(alertThreshold, 0.9 * emergencyThreshold), else warning from
\* alertThreshold, else healthy; with alert 80 and emergency 95, 90% is alert,
\* 96% is emergency and 100% is exhausted.
C9_StatusBanding ==
  statusLevel # "none" =>
    LET m == MaxTenths
        A == statusArgs.alertThreshold
        E == statusArgs.emergencyThreshold
    IN /\ statusLevel =
            IF m >= 1000 THEN "exhausted"
            ELSE IF m >= 10 * E THEN "emergency"
            ELSE IF m >= Max(10 * A, 9 * E) THEN "alert"
            ELSE IF m >= 10 * A THEN "warning"
            ELSE "healthy"
       /\ (A = 80 /\ E = 95 /\ m = 900) => statusLevel = "alert"
       /\ (A = 80 /\ E = 95 /\ m = 960) => statusLevel = "emergency"
       /\ (A = 80 /\ E = 95 /\ m = 1000) => statusLevel = "exhausted"

C9_Witness ==
  /\ statusLevel = "alert"
  /\ statusArgs.alertThreshold = 80 /\ statusArgs.emergencyThreshold = 95
  /\ statusArgs.daily = <<90, 1>> /\ Tenths(statusArgs.monthly) < 900

(***************************************************************************)
(* cuTracker.ts, lines 1-151: the module-level counters and their          *)
(* debounced persistence.  JavaScript runs each call to completion, so a   *)
(* call is one step up to its first await; the steps below are the calls   *)
(* and the callbacks of the event loop (the timer, the two awaits of       *)
(* persistOnce).  The continuations of a promise run before the next       *)
(* callback, so the end of a flush and the resumption of whoever awaits it *)
(* are one step.  mkdir and writeFile are slow but do not fail.            *)
(***************************************************************************)
\* versions of the module-level counters in one behaviour
MaxVersion == 4
Version == Len(history)

\* readInitial(): the counters of a process that starts with file f
readInitial(f) == IF f.exists THEN f.data ELSE ZeroCounters

\* `while (dirty)` of startFlush's loop (line 49)
loopAgain_Never(isDirty) == FALSE
loopAgain(isDirty) == isDirty

\* startFlush(): the state it leaves; it takes the snapshot and starts the
\* first mkdir before it returns.  sver is history: the version of the snapshot.
startFlush(s, v) ==
  IF s.flushPromise THEN s
  ELSE IF ~s.dirty THEN s
  ELSE [s EXCEPT !.dirty = FALSE, !.flushPromise = TRUE,
                 !.run = [stage |-> "mkdir", snapshot |-> s.counters, sver |-> v]]

\* schedulePersist(immediate): the state it leaves.  The promise it returns is
\* pending exactly when a flush is in flight afterwards.
schedulePersist(s, immediate, v) ==
  IF s.flushPromise THEN [s EXCEPT !.dirty = TRUE]
  ELSE IF ~s.dirty THEN [s EXCEPT !.pendingTimer = FALSE]
  ELSE IF immediate THEN startFlush([s EXCEPT !.pendingTimer = FALSE], v)
  ELSE IF s.pendingTimer THEN s
  ELSE [s EXCEPT !.pendingTimer = TRUE]

markDirty(s) == [s EXCEPT !.dirty = TRUE]

\* a mutation to counters c, persisted with schedulePersist(immediate)
mutate(c, immediate) ==
  /\ Version < MaxVersion
  /\ history' = Append(history, c)
  /\ cstate' = schedulePersist(markDirty([cstate EXCEPT !.counters = c]), immediate, Version + 1)
  /\ flushNowCall' = [flushNowCall EXCEPT !.overlapped =
                        @ \/ (flushNowCall.pc = "awaiting" /\ cstate.run.stage = "writeFile")]
  /\ UNCHANGED <<countersFile, waitCall, beyondCounters>>

\* recordUsage(units = 1) of the module-level API
recordUsageUnits(units) ==
  mutate([cstate.counters EXCEPT !.usage = @ + units], FALSE)

\* recordCacheHit(count = 1) of the module-level API
recordCacheHitCount(count) ==
  mutate([cstate.counters EXCEPT !.cacheHits = @ + count], FALSE)

resetUsage ==
  IF cstate.counters.usage = 0 THEN UNCHANGED vars
  ELSE mutate([cstate.counters EXCEPT !.usage = 0], TRUE)

resetCacheHits ==
  IF cstate.counters.cacheHits = 0 THEN UNCHANGED vars
  ELSE mutate([cstate.counters EXCEPT !.cacheHits = 0], TRUE)

\* resetAll() of the module-level API
resetAllCounters == mutate(ZeroCounters, TRUE)

\* what a caller sees at the moment its promise resolves, in state s with file f
resolvedCall(call, s, f) ==
  [call EXCEPT !.pc = "resolved", !.sawVer = Version, !.sawTimer = s.pendingTimer,
               !.sawFlush = s.flushPromise, !.sawDirty = s.dirty,
               !.sawFile = f, !.sawCounters = s.counters]

\* flushNow(): up to its await
flushNow ==
  LET s == schedulePersist([cstate EXCEPT !.pendingTimer = FALSE], TRUE, Version)
      call == [IdleCall EXCEPT !.callVer = Version]
  IN /\ flushNowCall.pc \in {"idle", "resolved"}
     /\ cstate' = s
     /\ flushNowCall' = IF s.flushPromise THEN [call EXCEPT !.pc = "awaiting"]
                        ELSE resolvedCall(call, s, countersFile)
     /\ UNCHANGED <<countersFile, waitCall, history, beyondCounters>>

\* the body of waitForIdle() entered in state s: sleep while a timer is pending,
\* await a flush in flight, else return
waitForIdleFrom(call, s, f) ==
  IF s.pendingTimer THEN [call EXCEPT !.pc = "sleeping"]
  ELSE IF s.flushPromise THEN [call EXCEPT !.pc = "awaiting"]
  ELSE resolvedCall(call, s, f)

\* waitForIdle(): up to its await
waitForIdle ==
  /\ waitCall.pc \in {"idle", "resolved"}
  /\ waitCall' = waitForIdleFrom([IdleCall EXCEPT !.callVer = Version], cstate, countersFile)
  /\ UNCHANGED <<cstate, countersFile, flushNowCall, history, beyondCounters>>

\* the setTimeout(PERSIST_DELAY_MS + 5) of waitForIdle fires: waitForIdle() again
waitForIdleWakes ==
  /\ waitCall.pc = "sleeping"
  /\ waitCall' = waitForIdleFrom(waitCall, cstate, countersFile)
  /\ UNCHANGED <<cstate, countersFile, flushNowCall, history, beyondCounters>>

\* the callback of pendingTimer (lines 83-87)
persistTimerFires ==
  /\ cstate.pendingTimer
  /\ cstate' = LET s == [cstate EXCEPT !.pendingTimer = FALSE]
               IN IF ~s.dirty THEN s ELSE startFlush(s, Version)
  /\ UNCHANGED <<countersFile, flushNowCall, waitCall, history, beyondCounters>>

\* persistOnce: fs.promises.mkdir resolves, writeFile starts
mkdirDone ==
  /\ cstate.run.stage = "mkdir"
  /\ cstate' = [cstate EXCEPT !.run.stage = "writeFile"]
  /\ UNCHANGED <<countersFile, flushNowCall, waitCall, history, beyondCounters>>

\* persistOnce: fs.promises.writeFile resolves.  The loop of startFlush goes
\* round again or ends; at its end the finally block runs and then whoever
\* awaits the flush.
countersWriteDone ==
  LET f == [exists |-> TRUE, data |-> cstate.run.snapshot, fver |-> cstate.run.sver]
  IN /\ cstate.run.stage = "writeFile"
     /\ countersFile' = f
     /\ IF loopAgain(cstate.dirty)
          THEN /\ cstate' = [cstate EXCEPT !.dirty = FALSE,
                               !.run = [stage |-> "mkdir", snapshot |-> cstate.counters,
                                        sver |-> Version]]
               /\ UNCHANGED <<flushNowCall, waitCall>>
          ELSE LET ended == [cstate EXCEPT !.flushPromise = FALSE, !.run = NoRun]
                   s == IF ended.dirty THEN schedulePersist(ended, TRUE, Version) ELSE ended
               IN /\ cstate' = s
                  /\ flushNowCall' = IF flushNowCall.pc = "awaiting"
                                       THEN resolvedCall(flushNowCall, s, f)
                                       ELSE flushNowCall
                  /\ waitCall' = IF waitCall.pc # "awaiting" THEN waitCall
                                 ELSE IF s.dirty \/ s.pendingTimer
                                   THEN waitForIdleFrom(waitCall, s, f)
                                 ELSE resolvedCall(waitCall, s, f)
     /\ UNCHANGED <<history, beyondCounters>>

UnitsInputs == {1, 2}

\* the process starts with no counters file, or with one a previous run left
InitCounters ==
  /\ InitTracker /\ InitStatusIdle /\ InitStrategyIdle /\ InitSubscriptionsIdle /\ InitServicesIdle
  /\ countersFile \in {NoFile, [exists |-> TRUE, data |-> [usage |-> 1, cacheHits |-> 1], fver |-> 1]}
  /\ cstate = [counters |-> readInitial(countersFile), dirty |-> FALSE,
               pendingTimer |-> FALSE, flushPromise |-> FALSE, run |-> NoRun]
  /\ flushNowCall = IdleCall
  /\ waitCall = IdleCall
  /\ history = <<readInitial(countersFile)>>

NextCounters ==
  \/ \E units \in UnitsInputs : recordUsageUnits(units)
  \/ recordCacheHitCount(1)
  \/ resetUsage
  \/ resetCacheHits
  \/ resetAllCounters
  \/ flushNow
  \/ waitForIdle
  \/ waitForIdleWakes
  \/ persistTimerFires
  \/ mkdirDone
  \/ countersWriteDone

SpecCounters == InitCounters /\ [][NextCounters]_vars

\* C6: when waitForIdle() resolves no timer is pending, no flush is in flight,
\* the dirty flag is clear and the file holds the in-memory counters; when
\* flushNow() resolves the file holds the counters as they were at or after
\* the last mutation made before flushNow was called.
C6_IdleMeansWritten ==
  /\ waitCall.pc = "resolved" =>
       /\ ~waitCall.sawTimer /\ ~waitCall.sawFlush /\ ~waitCall.sawDirty
       /\ waitCall.sawVer > 1 =>
            (waitCall.sawFile.exists /\ waitCall.sawFile.data = waitCall.sawCounters)
       /\ readInitial(waitCall.sawFile) = waitCall.sawCounters
  /\ flushNowCall.pc = "resolved" =>
       /\ flushNowCall.sawFile.fver >= flushNowCall.callVer
       /\ flushNowCall.sawFile.fver <= flushNowCall.sawVer
       /\ flushNowCall.callVer > 1 =>
            /\ flushNowCall.sawFile.exists
            /\ flushNowCall.sawFile.data = history[flushNowCall.sawFile.fver]

\* flushNow() and waitForIdle() have both resolved, a recordUsage was issued
\* while the write flushNow waits for was in flight, and it is in the file.
C6_Witness ==
  /\ waitCall.pc = "resolved" /\ flushNowCall.pc = "resolved"
  /\ flushNowCall.overlapped
  /\ flushNowCall.callVer = 2 /\ waitCall.sawVer = 3
  /\ history[2].usage = 1 /\ history[3].usage = 2
  /\ waitCall.sawFile.data.usage = 2

(***************************************************************************)
(* providerStrategy.ts: executeWithBestProvider and what it calls.  A call *)
(* runs from its start to its first `await executor(...)` in one step, and *)
(* from the executor's result to the next await or to its end in another;  *)
(* other calls run in between.                                             *)
(***************************************************************************)
beyondStrategy ==
  <<now, last, registration, file, seq, fileSeq, win, monthSum, statusVars, countersVars,
    subscriptionVars, serviceVars>>

RECURSIVE SumOf(_, _)
SumOf(f, names) ==
  IF names = {} THEN 0
  ELSE LET n == CHOOSE x \in names : TRUE IN f[n] + SumOf(f, names \ {n})

\* used / limit * 100 >= threshold, a limit of 0 giving 0 percent
percentAtLeast(used, limit, threshold) == limit # 0 /\ 100 * used >= threshold * limit

\* shouldActivate of evaluateEmergency, on the snapshots of getAggregatedUsage
shouldActivate(tr, reg) ==
  LET emergencyProviders ==
        {n \in DOMAIN tr :
           \/ percentAtLeast(tr[n].dailyUsed, reg[n].dailyLimit, EMERGENCY_DAILY_THRESHOLD)
           \/ percentAtLeast(tr[n].monthlyUsed, reg[n].monthlyLimit, EMERGENCY_MONTHLY_THRESHOLD)
           \/ usageStatus(tr[n], reg[n]) = "emergency"}
      alerts == {n \in DOMAIN tr : usageStatus(tr[n], reg[n]) \in {"alert", "emergency"}}
      totalEmergency ==
        \/ percentAtLeast(SumOf([n \in DOMAIN tr |-> tr[n].dailyUsed], DOMAIN tr),
                          SumOf([n \in DOMAIN tr |-> reg[n].dailyLimit], DOMAIN tr),
                          EMERGENCY_DAILY_THRESHOLD)
        \/ percentAtLeast(SumOf([n \in DOMAIN tr |-> tr[n].monthlyUsed], DOMAIN tr),
                          SumOf([n \in DOMAIN tr |-> reg[n].monthlyLimit], DOMAIN tr),
                          EMERGENCY_MONTHLY_THRESHOLD)
  IN \/ emergencyProviders # {}
     \/ Cardinality(alerts) >= EMERGENCY_PROVIDER_COUNT
     \/ totalEmergency

\* getEmergencyContext(): the active and manual flags and the adjustments, the
\* operation limiter in halves (0.5 is 1); reason and since are left out
getEmergencyContext_NoAdjustments(st) ==
  [active |-> st.emergencyActive, manual |-> st.manualEmergency,
   scanIntervalMultiplier |-> 1, operationLimiterHalves |-> 2, cacheTtlMultiplier |-> 1]
getEmergencyContext(st) ==
  [active |-> st.emergencyActive, manual |-> st.manualEmergency,
   scanIntervalMultiplier |-> IF st.emergencyActive THEN 2 ELSE 1,
   operationLimiterHalves |-> IF st.emergencyActive THEN 1 ELSE 2,
   cacheTtlMultiplier |-> IF st.emergencyActive THEN 2 ELSE 1]

\* the automatic part of evaluateEmergency (lines 469-490)
evaluateAutomatic(st, tr, reg, t) ==
  LET tr2 == resetNames(tr, DOMAIN tr, t)
      should == shouldActivate(tr2, reg)
      on == [st EXCEPT !.emergencyActive = TRUE]
      off == [st EXCEPT !.emergencyActive = FALSE]
  IN IF should /\ ~st.emergencyActive
       THEN [strategy |-> on, tracker |-> tr2, events |-> <<getEmergencyContext(on)>>]
     ELSE IF ~should /\ st.emergencyActive
       THEN [strategy |-> off, tracker |-> tr2, events |-> <<getEmergencyContext(off)>>]
     ELSE [strategy |-> st, tracker |-> tr2, events |-> <<>>]

\* evaluateEmergency(source): the strategy and the tracker it leaves, and the
\* contexts of the emergency-mode-changed events it emits
evaluateEmergency_IgnoresManual(st, tr, reg, t) == evaluateAutomatic(st, tr, reg, t)
evaluateEmergency(st, tr, reg, t) ==
  IF st.manualEmergency
    THEN IF ~st.emergencyActive
           THEN LET on == [st EXCEPT !.emergencyActive = TRUE]
                IN [strategy |-> on, tracker |-> tr, events |-> <<getEmergencyContext(on)>>]
           ELSE [strategy |-> st, tracker |-> tr, events |-> <<>>]
    ELSE evaluateAutomatic(st, tr, reg, t)

\* buildProviderOrder: the candidates, the tracker after its getUsage calls and
\* the round-robin counter
buildProviderOrder(opts, st, provs, tr, reg, t) ==
  LET all == IF opts.forceProvider = "none" THEN st.keys
             ELSE IF opts.forceProvider \in DOMAIN provs THEN <<opts.forceProvider>>
             ELSE <<>>
      emergencyCandidates ==
        SelectNames(all, {n \in Range(all) : provs[n].role # "primary" \/ provs[n].emergencyOnly})
      restricted ==
        IF st.emergencyActive /\ opts.respectEmergencyRestrictions /\ emergencyCandidates # <<>>
          THEN emergencyCandidates ELSE all
      S == Range(restricted)
      preferred ==
        IF opts.preferredProvider = "none" THEN restricted
        ELSE StableSort(restricted,
               [pr \in S \X S |-> pr[1] = opts.preferredProvider /\ pr[2] # opts.preferredProvider])
      tr2 == resetNames(tr, S, t)
      known(n) == n \in DOMAIN tr2
      higherScore(a, b) ==
        IF known(a) /\ known(b) THEN scoreGreater(tr2[a], reg[a], tr2[b], reg[b])
        ELSE IF known(a) THEN scoreNum(tr2[a], reg[a]) > 0
        ELSE IF known(b) THEN 0 > scoreNum(tr2[b], reg[b])
        ELSE FALSE
      byPriority == [pr \in S \X S |-> provs[pr[1]].priority < provs[pr[2]].priority]
      cost(n) == IF provs[n].costWeight = Undefined THEN provs[n].priority ELSE provs[n].costWeight
      byCost == [pr \in S \X S |->
                   \/ cost(pr[1]) < cost(pr[2])
                   \/ cost(pr[1]) = cost(pr[2]) /\ higherScore(pr[1], pr[2])]
      byCapacity == [pr \in S \X S |->
                       \/ higherScore(pr[1], pr[2])
                       \/ /\ ~higherScore(pr[2], pr[1])
                          /\ provs[pr[1]].priority < provs[pr[2]].priority]
      sorted == StableSort(preferred, byPriority)
      from == Min(st.roundRobinCounter, Len(sorted))
  IN IF all = <<>> THEN [candidates |-> <<>>, tracker |-> tr, counter |-> st.roundRobinCounter]
     ELSE IF st.name = "round_robin"
       THEN [candidates |-> SubSeq(sorted, from + 1, Len(sorted)) \o SubSeq(sorted, 1, from),
             tracker |-> tr2,
             counter |-> (st.roundRobinCounter + 1) % Max(1, Len(sorted))]
     ELSE IF st.name = "cost_optimized"
       THEN [candidates |-> StableSort(preferred, byCost), tracker |-> tr2,
             counter |-> st.roundRobinCounter]
     ELSE IF st.name = "emergency"
       THEN [candidates |->
               StableSort(SelectNames(preferred, {n \in S : provs[n].role # "primary"}), byPriority),
             tracker |-> tr2, counter |-> st.roundRobinCounter]
     ELSE [candidates |-> StableSort(preferred, byCapacity), tracker |-> tr2,
           counter |-> st.roundRobinCounter]

\* the first two tests of canUseProvider (lines 352-357)
providerGate(ps, opts, emergencyActive, t) ==
  /\ ~(ps.health = "offline" /\ ps.offlineUntil # 0 /\ ps.offlineUntil > t)
  /\ ~(ps.emergencyOnly /\ ~emergencyActive /\ ~opts.emergencyBypass)

\* the candidates from the k-th on, until canUseProvider accepts one: its index
\* (past the end when none is accepted) and the tracker after the canUse calls
RECURSIVE scanCandidates(_, _, _, _, _, _, _)
scanCandidates(call, k, tr, provs, reg, emergencyActive, t) ==
  IF k > Len(call.candidates) THEN [idx |-> k, tracker |-> tr]
  ELSE LET p == call.candidates[k]
           gate == providerGate(provs[p], call.opts, emergencyActive, t)
           tr2 == IF gate /\ p \in DOMAIN tr THEN resetNames(tr, {p}, t) ELSE tr
           ok == /\ gate
                 /\ p \in DOMAIN tr
                 /\ canUseVerdict(tr2[p], reg[p], call.estimatedCu,
                                  call.opts.allowNearLimit, FALSE, FALSE)
       IN IF ok THEN [idx |-> k, tracker |-> tr2]
          ELSE scanCandidates(call, k + 1, tr2, provs, reg, emergencyActive, t)

\* what is remembered of a call that has returned or thrown
finished(call, outcome, result, servedBy) ==
  [id |-> call.id, outcome |-> outcome, result |-> result, key |-> call.opts.cacheKey,
   attempt |-> call.attempt, servedBy |-> servedBy, error |-> "none", cause |-> 0]

\* throw lastError ?? new Error("no providers succeeded") (line 327)
thrown_NoCause(call) ==
  [finished(call, "error", 0, "none") EXCEPT !.error = "no providers succeeded"]
thrown(call) ==
  IF call.lastError = 0
    THEN [finished(call, "error", 0, "none") EXCEPT !.error = "no providers succeeded"]
    ELSE [finished(call, "error", 0, "none") EXCEPT !.error = "executor",
                                                    !.cause = call.lastError]

\* the loop over the candidates from the k-th on (lines 278-325): the executor is
\* invoked on the first candidate canUseProvider accepts, or the call throws
continueLoop(call, k, tr, provs, reg, emergencyActive, t) ==
  LET found == IF call.attempt >= call.maxAttempts
                 THEN [idx |-> Len(call.candidates) + 1, tracker |-> tr]
                 ELSE scanCandidates(call, k, tr, provs, reg, emergencyActive, t)
  IN IF found.idx > Len(call.candidates)
       THEN [call |-> IdleSlot, returned |-> thrown(call), tracker |-> found.tracker]
       ELSE [call |-> [call EXCEPT !.pc = "awaiting", !.idx = found.idx, !.i = 0,
                                   !.attempt = @ + 1],
             returned |-> audit.returned, tracker |-> found.tracker]

\* cuTracker.recordCacheHit and cuTracker.recordUsage on a given tracker
trackerRecordCacheHit(tr, name, estimatedCu, t) ==
  IF name \notin DOMAIN tr THEN tr
  ELSE [tr EXCEPT ![name] = addCacheHit(maybeReset(@, t), 2 * estimatedCu)]
trackerRecordUsage(tr, name, method, estimatedCu, t) ==
  IF name \notin DOMAIN tr THEN tr
  ELSE [tr EXCEPT ![name] = addUsage(maybeReset(@, t), normaliseMethod(method),
                                     estimatedCost(method, TRUE, 2 * estimatedCu))]

\* the ProviderState objects that the candidates of call c refer to
providersOf(c) == IF calls[c].age = 0 THEN providers ELSE calls[c].objs

\* the slots cs after a call of the given age has changed its objects to objs:
\* the calls in flight that hold the same objects see the change
shareObjects(cs, age, objs) ==
  [d \in DOMAIN cs |->
     IF age > 0 /\ cs[d].pc = "awaiting" /\ cs[d].age = age
       THEN [cs[d] EXCEPT !.objs = objs] ELSE cs[d]]

\* history: one more call, made with options opts
started(opts) ==
  [audit EXCEPT !.started = @ + 1, !.emitted = <<>>,
                !.everAllowNear = @ \/ opts.allowNearLimit,
                !.everStrict = @ \/ ~opts.allowNearLimit]

\* executeWithBestProvider(method, params, executor, options), up to its first
\* await: a cache hit returns at once; otherwise the candidates are ordered and
\* the executor is invoked on the first usable one.
executeWithBestProvider(c, opts) ==
  LET estimatedCu == estimatedCuOf(opts)
      cacheKey == opts.cacheKey
      at == IF cacheKey = "none" THEN 0 ELSE cacheIndex(cache, cacheKey)
      hit == at # 0 /\ cacheLive(cache[at], now)
      call0 == [IdleSlot EXCEPT !.id = audit.started + 1, !.opts = opts,
                                !.estimatedCu = estimatedCu]
  IN /\ calls[c].pc # "awaiting"
     /\ audit.started < MaxCalls
     /\ IF hit
          THEN LET entry == cache[at]
               IN /\ strategy' = [strategy EXCEPT !.cacheStats.hits = @ + 1,
                                    !.cacheStats.savedCu = @ + entry.estimatedCu]
                  /\ cache' = [cache EXCEPT ![at].hits = @ + 1]
                  /\ tracker' = trackerRecordCacheHit(tracker, entry.providerName,
                                                      entry.estimatedCu, now)
                  /\ writes' = IF entry.providerName \in DOMAIN tracker
                                 THEN schedulePersistWrites(FALSE) ELSE writes
                  /\ persistPromise' = IF entry.providerName \in DOMAIN tracker
                                         THEN schedulePersistPromise(FALSE) ELSE persistPromise
                  /\ calls' = [calls EXCEPT ![c] = IdleSlot]
                  /\ audit' = [started(opts) EXCEPT !.returned =
                                 finished(call0, "cached", entry.value, entry.providerName)]
                  /\ UNCHANGED providers
          ELSE LET st1 == IF cacheKey = "none"
                            THEN [strategy EXCEPT !.cacheStats.misses = @ + 1]
                            ELSE strategy
                   order == buildProviderOrder(opts, st1, providers, tracker, registration, now)
                   call1 == [call0 EXCEPT
                               !.candidates = order.candidates,
                               !.maxAttempts =
                                  Max(1, IF opts.maxAttempts = Undefined
                                           THEN Len(order.candidates) ELSE opts.maxAttempts),
                               !.providerAttempts =
                                  Max(1, IF opts.maxProviderAttempts = Undefined
                                           THEN 1 ELSE opts.maxProviderAttempts)]
                   loop == IF order.candidates = <<>>
                             THEN [call |-> IdleSlot,
                                   returned |-> [finished(call1, "error", 0, "none")
                                                   EXCEPT !.error = "no providers available"],
                                   tracker |-> order.tracker]
                             ELSE continueLoop(call1, 1, order.tracker, providers,
                                               registration, st1.emergencyActive, now)
               IN /\ cache' = IF at # 0 THEN cacheDelete(cache, cacheKey) ELSE cache
                  /\ strategy' = [st1 EXCEPT !.roundRobinCounter = order.counter]
                  /\ tracker' = loop.tracker
                  /\ calls' = [calls EXCEPT ![c] = loop.call]
                  /\ audit' = [started(opts) EXCEPT !.returned = loop.returned]
                  /\ UNCHANGED <<providers, writes, persistPromise>>
     /\ UNCHANGED beyondStrategy

\* the executor of call c resolves (lines 296-319)
executorResolves(c) ==
  LET call == calls[c]
      v == call.id
      p == call.candidates[call.idx]
      provs1 == [providersOf(c) EXCEPT ![p] = handleSuccess(@)]
      tr1 == trackerRecordUsage(tracker, p, call.opts.method, call.estimatedCu, now)
      ev == evaluateEmergency(strategy, tr1, registration, now)
      key == call.opts.cacheKey
      ttl == resolveCacheTtlSeconds(call.opts.ttlSeconds, strategy.aggressive,
                                    ev.strategy.emergencyActive)
      entry == [key |-> key, value |-> v, expiresAt |-> now + ttl, providerName |-> p,
                estimatedCu |-> call.estimatedCu, hits |-> 0]
      limited == enforceCacheLimit(cacheSet(cache, entry))
      over == /\ p \in DOMAIN tracker
              /\ maybeReset(tracker[p], now).dailyUsed + call.estimatedCu
                   > registration[p].dailyLimit
  IN /\ call.pc = "awaiting"
     /\ providers' = IF call.age = 0 THEN provs1 ELSE providers
     /\ tracker' = ev.tracker
     /\ writes' = IF p \in DOMAIN tracker THEN schedulePersistWrites(FALSE) ELSE writes
     /\ persistPromise' = IF p \in DOMAIN tracker
                            THEN schedulePersistPromise(FALSE) ELSE persistPromise
     /\ strategy' = IF key = "none" THEN ev.strategy
                    ELSE [ev.strategy EXCEPT !.cacheStats.stored = @ + 1,
                                             !.cacheStats.evictions = @ + limited.evicted]
     /\ cache' = IF key = "none" THEN cache ELSE limited.cache
     /\ calls' = shareObjects([calls EXCEPT ![c] = IdleSlot], call.age, provs1)
     /\ audit' = [audit EXCEPT
                    !.returned = finished(call, "ok", v, p),
                    !.stored = IF key = "none" THEN @
                               ELSE [k \in DOMAIN @ \cup {key} |->
                                       IF k = key
                                         THEN [id |-> call.id, at |-> now,
                                               ttlSeconds |-> call.opts.ttlSeconds]
                                         ELSE @[k]],
                    !.gone = IF key = "none" THEN {} ELSE limited.gone,
                    !.emitted = ev.events,
                    !.overGrants[p] =
                       IF ~over THEN @
                       ELSE IF @.day = todayKey(now) THEN [@ EXCEPT !.n = @ + 1]
                       ELSE [day |-> todayKey(now), n |-> 1]]
     /\ UNCHANGED beyondStrategy

\* the inner loop goes on: i < providerAttempts && attempt < maxAttempts, i
\* having been incremented (line 284)
retrySame_PerProviderOnly(call) == call.i + 1 < call.providerAttempts
retrySame(call) == call.i + 1 < call.providerAttempts /\ call.attempt < call.maxAttempts

\* the executor of call c rejects (lines 320-324): the same provider is tried
\* again while maxProviderAttempts and maxAttempts allow, then the next candidates
executorRejects(c) ==
  LET call == [calls[c] EXCEPT !.lastError = calls[c].attempt]
      p == call.candidates[call.idx]
      provs1 == [providersOf(c) EXCEPT ![p] = handleFailure(@, now)]
      ev == evaluateEmergency(strategy, tracker, registration, now)
      again == retrySame(call)
      loop == continueLoop(call, call.idx + 1, ev.tracker, provs1, registration,
                           ev.strategy.emergencyActive, now)
  IN /\ call.pc = "awaiting"
     /\ providers' = IF call.age = 0 THEN provs1 ELSE providers
     /\ strategy' = ev.strategy
     /\ IF again
          THEN /\ calls' = shareObjects(
                             [calls EXCEPT ![c] = [call EXCEPT !.i = @ + 1, !.attempt = @ + 1]],
                             call.age, provs1)
               /\ tracker' = ev.tracker
               /\ audit' = [audit EXCEPT !.emitted = ev.events]
          ELSE /\ calls' = shareObjects([calls EXCEPT ![c] = loop.call], call.age, provs1)
               /\ tracker' = loop.tracker
               /\ audit' = [audit EXCEPT !.returned = loop.returned, !.emitted = ev.events]
     /\ UNCHANGED <<cache, writes, persistPromise, beyondStrategy>>

\* forceEmergencyMode(force, reason)
forceEmergencyMode(force) ==
  LET st1 == [strategy EXCEPT !.manualEmergency = force]
      on == [st1 EXCEPT !.emergencyActive = TRUE]
      ev == IF force
              THEN IF ~st1.emergencyActive
                     THEN [strategy |-> on, tracker |-> tracker,
                           events |-> <<getEmergencyContext(on)>>]
                     ELSE [strategy |-> st1, tracker |-> tracker, events |-> <<>>]
              ELSE evaluateEmergency(st1, tracker, registration, now)
  IN /\ strategy' = ev.strategy
     /\ tracker' = ev.tracker
     /\ audit' = [audit EXCEPT !.tick = 1 - @, !.emitted = ev.events]
     /\ UNCHANGED <<providers, cache, calls, writes, persistPromise, beyondStrategy>>

\* the callback of the interval set by start(): evaluateEmergency("interval")
intervalTick ==
  LET ev == evaluateEmergency(strategy, tracker, registration, now)
  IN /\ strategy.timer
     /\ strategy' = ev.strategy
     /\ tracker' = ev.tracker
     /\ audit' = [audit EXCEPT !.tick = 1 - @, !.emitted = ev.events]
     /\ UNCHANGED <<providers, cache, calls, writes, persistPromise, beyondStrategy>>

\* CuTracker.registerProvider(def): the registration it stores
registered(def) ==
  [dailyLimit |-> def.dailyLimit, monthlyLimit |-> def.monthlyLimit,
   alertThreshold |-> clampedAlert(def.hasAlert, def.alertThreshold),
   emergencyThreshold |-> clampedEmergency(def.hasAlert, def.alertThreshold,
                                           def.hasEmergency, def.emergencyThreshold)]

\* what configureProviders stores for a definition (lines 147-160): a copy of
\* the existing state with the fields of the definition, or a healthy state
configuredState_Fresh(provs, def) ==
  NewProviderState(def.priority, def.role, def.emergencyOnly, def.costWeight)
configuredState(provs, def) ==
  IF def.name \in DOMAIN provs
    THEN [provs[def.name] EXCEPT !.priority = def.priority, !.role = def.role,
                                 !.emergencyOnly = def.emergencyOnly,
                                 !.costWeight = def.costWeight]
    ELSE NewProviderState(def.priority, def.role, def.emergencyOnly, def.costWeight)

\* configureProviders(defs): every provider named gets a new state object in
\* the map, a copy of the one it had with the fields of the definition, or a
\* healthy one; the providers not named are deleted; every definition is
\* registered with the tracker, which keeps the counters it has.  The calls in
\* flight keep the objects they hold, which are in the map no longer.
configureProviders(defs) ==
  LET names == {defs[i].name : i \in 1..Len(defs)}
      defOf(n) == defs[CHOOSE i \in 1..Len(defs) : defs[i].name = n]
      kept == SelectNames(strategy.keys, names)
      added == SelectNames([i \in 1..Len(defs) |-> defs[i].name], names \ Range(strategy.keys))
      provs1 == [n \in names |-> configuredState(providers, defOf(n))]
      reg1 == [n \in DOMAIN registration \cup names |->
                 IF n \in names THEN registered(defOf(n)) ELSE registration[n]]
      tr1 == [n \in DOMAIN tracker \cup names |->
                IF n \in DOMAIN tracker THEN tracker[n] ELSE FreshUsage(now)]
      ev == evaluateEmergency([strategy EXCEPT !.keys = kept \o added], tr1, reg1, now)
      live == {c \in Slots : calls[c].pc = "awaiting" /\ calls[c].age = 0}
  IN /\ calls' = [c \in Slots |->
                    LET lost == calls[c].lost \cup (Range(calls[c].candidates) \ names)
                    IN IF c \in live
                         THEN [calls[c] EXCEPT !.age = 1, !.objs = providers, !.lost = lost]
                       ELSE IF calls[c].pc = "awaiting"
                         THEN [calls[c] EXCEPT !.age = IF live # {} THEN 2 ELSE @,
                                               !.lost = lost]
                       ELSE calls[c]]
     /\ providers' = provs1
     /\ registration' = reg1
     /\ strategy' = ev.strategy
     /\ tracker' = ev.tracker
     /\ audit' = [audit EXCEPT !.tick = 1 - @, !.emitted = ev.events]
     /\ UNCHANGED <<cache, writes, persistPromise, now, last, file, seq, fileSeq,
                    win, monthSum, statusVars, countersVars, subscriptionVars, serviceVars>>

\* the options the calls are made with: a cuOverride of 2.5, floored to 2
StrategyOptions ==
  {[DefaultOptions EXCEPT !.cuHalves = h, !.allowNearLimit = a, !.cacheKey = k] :
     h \in {5}, a \in BOOLEAN, k \in {"none", "k1"}}

\* a new call takes the first slot that is not in flight
freeSlot == CHOOSE c \in Slots : calls[c].pc # "awaiting"
                                  /\ \A d \in Slots : calls[d].pc # "awaiting" => c <= d

InitStrategy == InitPersist /\ InitStatusIdle /\ InitCountersIdle /\ InitStrategyIdle /\ InitSubscriptionsIdle /\ InitServicesIdle

\* The calls and the executors' results arrive in any order, while no write of
\* the storage file is in flight; an executor answers within a tick of the clock.
NextStrategy ==
  \/ \E opts \in StrategyOptions :
       /\ writes = <<>>
       /\ \E c \in Slots : calls[c].pc # "awaiting"
       /\ executeWithBestProvider(freeSlot, opts)
  \/ \E c \in Slots : writes = <<>> /\ executorResolves(c)
  \/ \E c \in Slots : writes = <<>> /\ executorRejects(c)
  \/ \E i \in 1..Len(writes) : ensureDirDone(i)
  \/ \E i \in 1..Len(writes) : writeFileDone(i)
  \/ /\ writes = <<>>
     /\ \A c \in Slots : calls[c].pc # "awaiting"
     /\ advanceClock(1)

SpecStrategy == InitStrategy /\ [][NextStrategy]_vars

(***************************************************************************)
(* Claims about executeWithBestProvider, checked under SpecStrategy.       *)
(***************************************************************************)
\* C1: while no call sets allowNearLimit and nothing else writes the counters,
\* no provider's daily or monthly total exceeds its limit, however the calls
\* interleave.
C1_NeverOverQuota ==
  ~audit.everAllowNear =>
    \A p \in DOMAIN tracker :
      /\ tracker[p].dailyUsed <= registration[p].dailyLimit
      /\ tracker[p].monthlyUsed <= registration[p].monthlyLimit

\* C4: when every call sets allowNearLimit, at most one successful call per
\* provider and day is charged while dailyUsed + cost exceeds dailyLimit.
C4_AtMostOneOverLimitGrant ==
  ~audit.everStrict => \A p \in DOMAIN audit.overGrants : audit.overGrants[p].n <= 1

\* the cache key of the call that started last, given the history and the slots
callKey(a, cs) ==
  IF a.returned.id = a.started THEN a.returned.key
  ELSE IF \E c \in Slots : cs[c].id = a.started
    THEN cs[CHOOSE c \in Slots : cs[c].id = a.started].opts.cacheKey
  ELSE "none"

\* a step in which a call starts and finds a live entry under its key
CacheHitStep ==
  /\ audit'.started = audit.started + 1
  /\ LET k == callKey(audit', calls')
     IN /\ k # "none"
        /\ cacheIndex(cache, k) # 0
        /\ cache[cacheIndex(cache, k)].expiresAt > now

\* C10: a cacheable call that finds a live entry returns the entry's value
\* without invoking an executor, changes no provider's health or failure
\* counters, leaves every dailyUsed and monthlyUsed of the current window as it
\* is, and adds one hit and the entry's cost to cacheHits and cacheSavedCu of
\* the provider that produced the entry, and of no other.
C10_CacheHitFrame ==
  [][CacheHitStep =>
       LET e == cache[cacheIndex(cache, callKey(audit', calls'))]
           o == e.providerName
       IN /\ audit'.returned.id = audit'.started
          /\ audit'.returned.outcome = "cached"
          /\ audit'.returned.result = e.value
          /\ audit'.returned.attempt = 0
          /\ \A c \in Slots : calls'[c].pc = "awaiting" => calls'[c] = calls[c]
          /\ providers' = providers
          /\ \A p \in DOMAIN tracker :
               /\ InDay(p) => tracker'[p].dailyUsed = tracker[p].dailyUsed
               /\ InMonth(p) => tracker'[p].monthlyUsed = tracker[p].monthlyUsed
               /\ p # o => /\ tracker'[p].cacheHits = tracker[p].cacheHits
                           /\ tracker'[p].cacheSavedCu = tracker[p].cacheSavedCu
          /\ tracker'[o].cacheHits = (IF InDay(o) THEN tracker[o].cacheHits ELSE 0) + 1
          /\ tracker'[o].cacheSavedCu =
               (IF InDay(o) THEN tracker[o].cacheSavedCu ELSE 0) + e.estimatedCu
  ]_vars

\* the third call found under its key the value the second call stored through
\* p2, after the first call had used p1
C10_Witness ==
  /\ audit.returned.outcome = "cached" /\ audit.returned.id = 3
  /\ audit.returned.result = 2 /\ audit.returned.servedBy = "p2"
  /\ tracker["p2"].cacheHits = 1 /\ tracker["p2"].cacheSavedCu = 2
  /\ tracker["p2"].dailyUsed = 2
  /\ tracker["p1"].cacheHits = 0 /\ tracker["p1"].dailyUsed = 2

(***************************************************************************)
(* The response cache: cacheable calls made one after the other, with and  *)
(* without ttlSeconds, with aggressive caching on or off, emergency mode   *)
(* forced on and off, the clock moving at any moment.                      *)
(***************************************************************************)
\* a cuOverride of 1; ttlSeconds of 15 and 45 seconds, or none
CacheOptions ==
  {[DefaultOptions EXCEPT !.cuHalves = 2, !.cacheKey = "k1", !.ttlSeconds = ttl] :
     ttl \in {Undefined, 1, 3}}

InitCache ==
  /\ InitPersist /\ InitStatusIdle /\ InitCountersIdle /\ InitSubscriptionsIdle /\ InitServicesIdle
  /\ providers = TwoProviders
  /\ \E a \in BOOLEAN : strategy = [NewStrategy EXCEPT !.aggressive = a]
  /\ cache = <<>>
  /\ calls = [c \in Slots |-> IdleSlot]
  /\ audit = NoAudit

NextCache ==
  \/ \E opts \in CacheOptions :
       /\ writes = <<>>
       /\ \A c \in Slots : calls[c].pc # "awaiting"
       /\ executeWithBestProvider(freeSlot, opts)
  \/ \E c \in Slots : writes = <<>> /\ executorResolves(c)
  \/ \E force \in BOOLEAN : forceEmergencyMode(force)
  \/ \E i \in 1..Len(writes) : ensureDirDone(i)
  \/ \E i \in 1..Len(writes) : writeFileDone(i)
  \/ writes = <<>> /\ advanceClock(1)

SpecCache == InitCache /\ [][NextCache]_vars

\* a step in which a call starts with key k
StartsWithKey(k) ==
  /\ audit'.started = audit.started + 1
  /\ callKey(audit', calls') = k

\* C11: after a cacheable call with ttlSeconds = T > 0 stored its result at time
\* t0, a call with the same key that starts at a time t < t0 + T returns the
\* stored value and invokes no executor, and one that starts at t >= t0 + T is
\* not answered from the cache: its executor is invoked, or it throws having
\* found no provider to use.
C11_TtlRoundTrip ==
  [][\A k \in DOMAIN audit.stored :
       (StartsWithKey(k) /\ audit.stored[k].ttlSeconds > 0) =>
         LET t0 == audit.stored[k].at
             T == audit.stored[k].ttlSeconds
             id == audit'.started
         IN IF now < t0 + T
              THEN /\ audit'.returned.id = id
                   /\ audit'.returned.outcome = "cached"
                   /\ audit'.returned.result = audit.stored[k].id
                   /\ audit'.returned.attempt = 0
                   /\ \A c \in Slots : calls'[c].pc # "awaiting"
              ELSE \/ \E c \in Slots : /\ calls'[c].id = id
                                       /\ calls'[c].pc = "awaiting"
                                       /\ calls'[c].attempt = 1
                   \/ /\ audit'.returned.id = id
                      /\ audit'.returned.outcome = "error"
                      /\ audit'.returned.attempt = 0
  ]_vars

\* the first call stored its value with ttlSeconds 3 at time 1, the second was
\* answered from the cache at a time before 4, and the executor of the third,
\* started at time 4, has been invoked
C11_Witness ==
  /\ "k1" \in DOMAIN audit.stored
  /\ audit.stored["k1"] = [id |-> 1, at |-> 1, ttlSeconds |-> 3]
  /\ strategy.cacheStats.hits = 1
  /\ now = 4
  /\ \E c \in Slots : calls[c].pc = "awaiting" /\ calls[c].id = 3
  /\ cache = <<>>

\* C12: without ttlSeconds, the TTL of a stored entry is the base TTL times 1.5
\* when aggressive caching is enabled and times 2 while emergency mode is
\* active, both factors applying together.
C12_TtlMultipliersCompose ==
  [][\A k \in DOMAIN audit'.stored :
       (/\ audit'.returned.outcome = "ok" /\ audit'.returned.key = k
        /\ audit'.returned.id = audit'.stored[k].id
        /\ audit'.returned # audit.returned
        /\ audit'.stored[k].ttlSeconds = Undefined) =>
         LET e == cache'[cacheIndex(cache', k)]
         IN 2 * (e.expiresAt - now) =
              CacheBaseTtl * (IF strategy'.aggressive THEN 3 ELSE 2)
                           * (IF strategy'.emergencyActive THEN 2 ELSE 1)
  ]_vars

(***************************************************************************)
(* The size cap of the cache: the table starts with 9 or 10 entries stored *)
(* by earlier calls, live and expired ones in several orders, and calls    *)
(* store under new keys and under a key already in the table.              *)
(***************************************************************************)
PreloadedKeys == <<"e1", "e2", "e3", "e4", "e5", "e6", "e7", "e8", "e9", "e10">>
\* entry i expires at 1 + (a + b * i) % 4
Preloaded(n, a, b) ==
  [i \in 1..n |->
     [key |-> PreloadedKeys[i], value |-> 0, expiresAt |-> 1 + ((a + b * i) % 4),
      providerName |-> "p1", estimatedCu |-> 1, hits |-> 0]]

EvictOptions ==
  {[DefaultOptions EXCEPT !.cuHalves = 2, !.cacheKey = k, !.ttlSeconds = ttl] :
     k \in {"k1", "k2", "e1"}, ttl \in {Undefined, 1}}

InitEvict ==
  /\ InitPersist /\ InitStatusIdle /\ InitCountersIdle /\ InitSubscriptionsIdle /\ InitServicesIdle
  /\ providers = TwoProviders
  /\ strategy = NewStrategy
  /\ \E n \in {CACHE_MAX_SIZE - 1, CACHE_MAX_SIZE}, a \in {0, 1}, b \in {0, 1, 3} :
       cache = Preloaded(n, a, b)
  /\ calls = [c \in Slots |-> IdleSlot]
  /\ audit = NoAudit

\* The calls are made one after the other.
NextEvict ==
  \/ \E opts \in EvictOptions :
       /\ writes = <<>>
       /\ \A c \in Slots : calls[c].pc # "awaiting"
       /\ executeWithBestProvider(freeSlot, opts)
  \/ \E c \in Slots : writes = <<>> /\ executorResolves(c)
  \/ \E i \in 1..Len(writes) : ensureDirDone(i)
  \/ \E i \in 1..Len(writes) : writeFileDone(i)
  \/ /\ writes = <<>>
     /\ \A c \in Slots : calls[c].pc # "awaiting"
     /\ advanceClock(1)

SpecEvict == InitEvict /\ [][NextEvict]_vars

\* the keys of a cache table
KeysOf(c) == {c[i].key : i \in 1..Len(c)}

\* C13: after every step of a call the table holds at most CACHE_MAX_SIZE
\* entries, and when a store evicts for size, every entry it evicted (an older
\* entry or the one just stored) expires no later than every entry that
\* remains, and the table is left exactly full.
C13_EvictSoonestFirst ==
  [][/\ Len(cache') <= CACHE_MAX_SIZE
     /\ strategy'.cacheStats.evictions > strategy.cacheStats.evictions =>
          /\ Len(cache') = CACHE_MAX_SIZE
          /\ \A i \in 1..Len(cache), j \in 1..Len(cache') :
               cache[i].key \notin KeysOf(cache') =>
                 cache[i].expiresAt <= cache'[j].expiresAt
          /\ audit'.returned.key \notin KeysOf(cache') =>
               /\ KeysOf(cache) = KeysOf(cache')
               /\ \E g \in audit'.gone : g.key = audit'.returned.key
               /\ \A g \in audit'.gone, j \in 1..Len(cache') :
                    g.expiresAt <= cache'[j].expiresAt
  ]_vars

\* two stores have each evicted one entry: the last one evicted an older entry
\* that expired before the newest entry still in the full table does
C13_Witness ==
  /\ strategy.cacheStats.evictions = 2
  /\ Len(cache) = CACHE_MAX_SIZE
  /\ \E g \in audit.gone :
       /\ g.key # audit.returned.key
       /\ \E j \in 1..Len(cache) : cache[j].expiresAt > g.expiresAt
  /\ audit.returned.key \in KeysOf(cache)

(***************************************************************************)
(* The attempt loop: calls with and without maxAttempts and                *)
(* maxProviderAttempts, executors that resolve or reject, a second         *)
(* provider that is emergency-only or not, a provider name that is not     *)
(* configured.                                                             *)
(***************************************************************************)
AttemptOptions ==
  LET base == [DefaultOptions EXCEPT !.cuHalves = 2]
  IN {base,
      [base EXCEPT !.maxProviderAttempts = 2],
      [base EXCEPT !.maxProviderAttempts = 2, !.maxAttempts = 3],
      [base EXCEPT !.maxProviderAttempts = 2, !.maxAttempts = 1],
      [base EXCEPT !.forceProvider = "px"],
      [base EXCEPT !.emergencyBypass = TRUE],
      [base EXCEPT !.cacheKey = "k1"]}

AttemptCalls == 2

InitAttempts ==
  /\ InitPersist /\ InitStatusIdle /\ InitCountersIdle /\ InitSubscriptionsIdle /\ InitServicesIdle
  /\ \E eo \in BOOLEAN : providers = [TwoProviders EXCEPT !["p2"].emergencyOnly = eo]
  /\ strategy = NewStrategy
  /\ cache = <<>>
  /\ calls = [c \in Slots |-> IdleSlot]
  /\ audit = NoAudit

NextAttempts ==
  \/ \E opts \in AttemptOptions :
       /\ writes = <<>> /\ audit.started < AttemptCalls
       /\ \E c \in Slots : calls[c].pc # "awaiting"
       /\ executeWithBestProvider(freeSlot, opts)
  \/ \E c \in Slots : writes = <<>> /\ executorResolves(c)
  \/ \E c \in Slots : writes = <<>> /\ executorRejects(c)
  \/ \E i \in 1..Len(writes) : ensureDirDone(i)
  \/ \E i \in 1..Len(writes) : writeFileDone(i)
  \/ /\ writes = <<>>
     /\ \A c \in Slots : calls[c].pc # "awaiting"
     /\ advanceClock(1)

SpecAttempts == InitAttempts /\ [][NextAttempts]_vars

\* steps of the call in slot c: its executor is invoked, resolves, rejects
Invoked(c) ==
  /\ calls'[c].pc = "awaiting"
  /\ \/ calls[c].pc # "awaiting"
     \/ calls'[c].id # calls[c].id
     \/ calls'[c].attempt # calls[c].attempt
Resolved(c) ==
  /\ calls[c].pc = "awaiting"
  /\ audit'.returned # audit.returned
  /\ audit'.returned.id = calls[c].id
  /\ audit'.returned.outcome = "ok"
Rejected(c) ==
  /\ calls[c].pc = "awaiting"
  /\ calls'[c].pc # "awaiting" \/ calls'[c].attempt # calls[c].attempt
  /\ ~Resolved(c)
Provider(call) == call.candidates[call.idx]

\* C14: whenever the executor is invoked for a provider p, on a first or a
\* repeated attempt, p is at that moment not offline with an unexpired cooldown,
\* is not emergency-only unless emergency mode is active or emergencyBypass is
\* set, and passes canUse for the estimated cost with the call's allowNearLimit.
C14_InvokedOnlyWhenUsable ==
  [][\A c \in Slots :
       Invoked(c) =>
         LET call == calls'[c]
             p == Provider(call)
         IN /\ ~(providers'[p].health = "offline" /\ providers'[p].offlineUntil > now')
            /\ providers'[p].emergencyOnly =>
                 (strategy'.emergencyActive \/ call.opts.emergencyBypass)
            /\ canUseVerdict(maybeReset(tracker'[p], now'), registration'[p],
                             call.estimatedCu, call.opts.allowNearLimit, FALSE, FALSE)
  ]_vars

\* the limits the options of a call ask for
TotalLimit(call) ==
  IF call.opts.maxAttempts = Undefined THEN Len(call.candidates) ELSE call.opts.maxAttempts
PerProviderLimit(call) ==
  IF call.opts.maxProviderAttempts = Undefined THEN 1 ELSE call.opts.maxProviderAttempts
\* the counters of provider q are those of the current window and did not move
SameUsage(q) ==
  /\ InDay(q) => /\ tracker'[q].dailyUsed = tracker[q].dailyUsed
                 /\ tracker'[q].requestCount = tracker[q].requestCount
  /\ InMonth(q) => tracker'[q].monthlyUsed = tracker[q].monthlyUsed

\* C15: a call invokes the executor at most maxAttempts times (default: the
\* number of candidates) and at most maxProviderAttempts times on one candidate
\* (default 1); when an invocation resolves the call returns its value and
\* invokes nothing more, and the usage is recorded once, on the provider that
\* resolved; when an invocation rejects no usage is recorded.
C15_AttemptsBoundedUsageOnce ==
  [][\A c \in Slots :
       /\ calls'[c].pc = "awaiting" =>
            /\ calls'[c].attempt <= TotalLimit(calls'[c])
            /\ calls'[c].i + 1 <= PerProviderLimit(calls'[c])
       /\ Resolved(c) =>
            LET p == Provider(calls[c])
            IN /\ calls'[c].pc = "idle"
               /\ audit'.returned.result = calls[c].id
               /\ audit'.returned.servedBy = p
               /\ audit'.returned.attempt = calls[c].attempt
               /\ tracker'[p].dailyUsed =
                    (IF InDay(p) THEN tracker[p].dailyUsed ELSE 0) + calls[c].estimatedCu
               /\ tracker'[p].monthlyUsed =
                    (IF InMonth(p) THEN tracker[p].monthlyUsed ELSE 0) + calls[c].estimatedCu
               /\ tracker'[p].requestCount =
                    (IF InDay(p) THEN tracker[p].requestCount ELSE 0) + 1
               /\ \A q \in DOMAIN tracker \ {p} : SameUsage(q)
       /\ Rejected(c) => \A q \in DOMAIN tracker : SameUsage(q)
  ]_vars

\* a call with maxAttempts 3 and maxProviderAttempts 2 was rejected twice by p1
\* and answered by p2 on the third attempt: p2 is charged once, p1 not at all
C15_Witness ==
  /\ audit.returned.outcome = "ok" /\ audit.returned.attempt = 3
  /\ audit.returned.servedBy = "p2" /\ audit.returned.id = 1
  /\ providers["p1"].totalFailures = 2
  /\ tracker["p2"].dailyUsed = 1 /\ tracker["p2"].requestCount = 1
  /\ tracker["p1"].dailyUsed = 0 /\ tracker["p1"].requestCount = 0

\* C16: a call that ends without a result throws one error: that of its last
\* rejected invocation when it made one, a no-provider error when it made
\* none; it returns no value then.  A value it returns is that of a live cache
\* entry under its key or the result of its own executor.
C16_SingleErrorNoFabrication ==
  [][audit'.returned # audit.returned =>
       LET r == audit'.returned
       IN /\ r.outcome \in {"ok", "cached", "error"}
          /\ r.outcome = "error" =>
               /\ r.result = 0 /\ r.servedBy = "none"
               /\ IF r.attempt > 0
                    THEN /\ r.error = "executor" /\ r.cause = r.attempt
                         /\ \E c \in Slots : Rejected(c) /\ calls[c].id = r.id
                                              /\ calls[c].attempt = r.attempt
                    ELSE /\ r.error \in {"no providers available", "no providers succeeded"}
                         /\ r.cause = 0
                         /\ r.id = audit'.started /\ audit'.started = audit.started + 1
          /\ r.outcome = "ok" =>
               /\ r.error = "none"
               /\ \E c \in Slots : /\ calls[c].pc = "awaiting" /\ calls[c].id = r.id
                                    /\ calls'[c].pc = "idle"
                                    /\ r.result = calls[c].id
          /\ r.outcome = "cached" =>
               /\ r.error = "none"
               /\ r.key # "none"
               /\ \E i \in 1..Len(cache) : /\ cache[i].key = r.key
                                            /\ cache[i].expiresAt > now
                                            /\ cache[i].value = r.result
  ]_vars

\* a call with maxAttempts 3 and maxProviderAttempts 2 has thrown the error of
\* its third invocation, p1 having rejected twice and p2 once
C16_Witness ==
  /\ audit.returned.outcome = "error" /\ audit.returned.error = "executor"
  /\ audit.returned.attempt = 3 /\ audit.returned.cause = 3
  /\ providers["p1"].totalFailures = 2 /\ providers["p2"].totalFailures = 1

\* C17: a rejected invocation adds one to consecutiveFailures of its provider
\* and, on the count just incremented, makes it offline with offlineUntil = now
\* + cooldown when the count has reached the threshold and degraded otherwise;
\* a resolved invocation sets consecutiveFailures to 0 and health to healthy
\* whatever the health was; no other provider changes.
C17_HealthStateMachine ==
  [][\A c \in Slots :
       LET p == Provider(calls[c])
       IN /\ Rejected(c) =>
               /\ providers'[p].consecutiveFailures = providers[p].consecutiveFailures + 1
               /\ providers'[p].totalFailures = providers[p].totalFailures + 1
               /\ IF providers'[p].consecutiveFailures >= PROVIDER_FAILURE_THRESHOLD
                    THEN /\ providers'[p].health = "offline"
                         /\ providers'[p].offlineUntil = now + OfflineCooldown
                    ELSE /\ providers'[p].health = "degraded"
                         /\ providers'[p].offlineUntil = providers[p].offlineUntil
               /\ \A q \in DOMAIN providers \ {p} : providers'[q] = providers[q]
          /\ Resolved(c) =>
               /\ providers'[p].consecutiveFailures = 0
               /\ providers'[p].health = "healthy"
               /\ providers'[p].totalSuccesses = providers[p].totalSuccesses + 1
               /\ \A q \in DOMAIN providers \ {p} : providers'[q] = providers[q]
  ]_vars

\* p1 went offline on its third consecutive failure, at time 0 with the
\* cooldown running to time 3, and a success that came through while it was
\* offline has made it healthy again with no failures counted
C17_Witness ==
  /\ providers["p1"].totalFailures = 3 /\ providers["p1"].offlineUntil = OfflineCooldown
  /\ now < providers["p1"].offlineUntil
  /\ providers["p1"].totalSuccesses = 1
  /\ providers["p1"].consecutiveFailures = 0 /\ providers["p1"].health = "healthy"

(***************************************************************************)
(* Emergency mode: two providers with limits of 25 a day and 50 a month,   *)
(* p1 at 92 percent of its day and p2 at 0 or 92 percent, p1 with its own  *)
(* emergency threshold of 90, 95 (the default) or 99; two calls that may   *)
(* be forced onto p1, resets of the counters, forceEmergencyMode, the      *)
(* interval callback and reconfiguration.                                  *)
(***************************************************************************)
DailyLimit == 25
MonthlyLimit == 50
\* the counters after `used` calls of cost 1 today
UsedState(used) ==
  [FreshUsage(0) EXCEPT !.dailyUsed = used, !.monthlyUsed = used, !.requestCount = used,
                        !.cuByMethod = [ZeroByMethod EXCEPT !["custom"] = used]]
ProviderDefs(hasEmergency, emergencyThreshold) ==
  <<[name |-> "p1", priority |-> 1, role |-> "primary", emergencyOnly |-> FALSE,
     costWeight |-> Undefined, dailyLimit |-> DailyLimit, monthlyLimit |-> MonthlyLimit,
     hasAlert |-> FALSE, alertThreshold |-> 0,
     hasEmergency |-> hasEmergency, emergencyThreshold |-> emergencyThreshold],
    [name |-> "p2", priority |-> 2, role |-> "secondary", emergencyOnly |-> FALSE,
     costWeight |-> Undefined, dailyLimit |-> DailyLimit, monthlyLimit |-> MonthlyLimit,
     hasAlert |-> FALSE, alertThreshold |-> 0,
     hasEmergency |-> FALSE, emergencyThreshold |-> 0]>>
ConfigInputs == {ProviderDefs(FALSE, 0), ProviderDefs(TRUE, 99), ProviderDefs(TRUE, 90)}
InitialUsage == {<<23, 0>>, <<23, 23>>}
EmergencyCalls == 2

EmergencyOptions ==
  {[DefaultOptions EXCEPT !.cuHalves = 2, !.forceProvider = f] : f \in {"none", "p1"}}

\* configureProviders(defs) and start() on counters loaded from the file
InitEmergency ==
  /\ InitStatusIdle /\ InitCountersIdle /\ InitSubscriptionsIdle /\ InitServicesIdle
  /\ now = 0 /\ persistPromise = FALSE /\ writes = <<>> /\ file = NoPayload
  /\ last = NoCall /\ seq = 0 /\ fileSeq = 0
  /\ \E defs \in ConfigInputs, u \in InitialUsage :
       /\ registration = [n \in Registered |->
                            registered(defs[CHOOSE i \in 1..2 : defs[i].name = n])]
       /\ tracker = [n \in Registered |-> UsedState(IF n = "p1" THEN u[1] ELSE u[2])]
       /\ win = [n \in Registered |->
                   [ZeroWindow EXCEPT !.sum = tracker[n].dailyUsed,
                                      !.sumC = tracker[n].dailyUsed,
                                      !.n = tracker[n].requestCount,
                                      !.byMethod = tracker[n].cuByMethod]]
       /\ monthSum = [n \in Registered |-> tracker[n].monthlyUsed]
       /\ strategy = [NewStrategy EXCEPT !.timer = TRUE,
                                         !.emergencyActive = shouldActivate(tracker, registration)]
  /\ providers = TwoProviders
  /\ cache = <<>>
  /\ calls = [c \in Slots |-> IdleSlot]
  /\ audit = NoAudit

\* no write is pending and no executor is running
Quiet == writes = <<>> /\ \A c \in Slots : calls[c].pc # "awaiting"

\* The calls are made one after the other, within one day; the mode is forced,
\* the interval fires and the providers are reconfigured between calls.
NextEmergency ==
  \/ \E opts \in EmergencyOptions :
       /\ Quiet /\ audit.started < EmergencyCalls
       /\ executeWithBestProvider(freeSlot, opts)
  \/ \E c \in Slots : writes = <<>> /\ executorResolves(c)
  \/ \E c \in Slots : writes = <<>> /\ executorRejects(c)
  \/ \E force \in BOOLEAN : Quiet /\ forceEmergencyMode(force)
  \/ Quiet /\ intervalTick
  \/ \E defs \in ConfigInputs : Quiet /\ configureProviders(defs)
  \/ \E name \in Registered : writes = <<>> /\ resetProvider(name)
  \/ writes = <<>> /\ resetAll
  \/ \E i \in 1..Len(writes) : ensureDirDone(i)
  \/ \E i \in 1..Len(writes) : writeFileDone(i)

SpecEmergency == InitEmergency /\ [][NextEmergency]_vars

\* the activation conditions as stated, on the counters getUsage would report
StatedConditions(tr0, reg, t) ==
  LET tr == resetNames(tr0, DOMAIN tr0, t)
  IN \/ \E n \in DOMAIN tr :
          \/ percentAtLeast(tr[n].dailyUsed, reg[n].dailyLimit, reg[n].emergencyThreshold)
          \/ percentAtLeast(tr[n].monthlyUsed, reg[n].monthlyLimit, reg[n].emergencyThreshold)
     \/ Cardinality({n \in DOMAIN tr :
                       usageStatus(tr[n], reg[n]) \in {"alert", "emergency", "exhausted"}})
          >= EMERGENCY_PROVIDER_COUNT
     \/ percentAtLeast(SumOf([n \in DOMAIN tr |-> tr[n].dailyUsed], DOMAIN tr),
                       SumOf([n \in DOMAIN tr |-> reg[n].dailyLimit], DOMAIN tr),
                       EMERGENCY_DAILY_THRESHOLD)
     \/ percentAtLeast(SumOf([n \in DOMAIN tr |-> tr[n].monthlyUsed], DOMAIN tr),
                       SumOf([n \in DOMAIN tr |-> reg[n].monthlyLimit], DOMAIN tr),
                       EMERGENCY_MONTHLY_THRESHOLD)

\* a step in which evaluateEmergency has run
Evaluated ==
  \/ audit'.tick # audit.tick
  \/ \E c \in Slots : Resolved(c) \/ Rejected(c)

\* C18: right after evaluateEmergency has run with no manual override,
\* emergency mode is active exactly when some provider's daily or monthly
\* percentage is at or above its own emergency threshold, or the providers at
\* alert, emergency or exhausted number EMERGENCY_PROVIDER_COUNT or more, or
\* the aggregate daily or monthly percentage is at or above the global one.
C18_ActiveIffStatedConditions ==
  [][(Evaluated /\ ~strategy'.manualEmergency) =>
       (strategy'.emergencyActive <=> StatedConditions(tracker', registration', now'))
  ]_vars

\* C19: without a manual override, emergency mode is not active in a state
\* where none of the activation conditions holds.
C19_NotActiveWithoutCondition ==
  (~strategy.manualEmergency /\ ~StatedConditions(tracker, registration, now))
    => ~strategy.emergencyActive

C21_OneEventPerChange ==
  [][/\ strategy'.emergencyActive # strategy.emergencyActive =>
          /\ Len(audit'.emitted) = 1
          /\ LET context == audit'.emitted[1]
             IN /\ context.active = strategy'.emergencyActive
                /\ context.scanIntervalMultiplier = (IF context.active THEN 2 ELSE 1)
                /\ context.operationLimiterHalves = (IF context.active THEN 1 ELSE 2)
                /\ context.cacheTtlMultiplier = (IF context.active THEN 2 ELSE 1)
     /\ strategy'.emergencyActive = strategy.emergencyActive =>
          (audit'.emitted = <<>> \/ audit' = audit)
  ]_vars

\* a call has been answered; the mode was active with no condition left after
\* a reset of p1, the next evaluation has deactivated it and the event of the
\* deactivation, with all multipliers at 1, is the one emitted last
C21_Witness ==
  /\ Len(audit.emitted) = 1 /\ ~audit.emitted[1].active /\ ~audit.emitted[1].manual
  /\ audit.emitted[1].operationLimiterHalves = 2
  /\ ~strategy.emergencyActive
  /\ audit.returned.outcome = "ok"
  /\ tracker["p1"].dailyUsed = 0

(***************************************************************************)
(* Reconfiguration: the two providers are configured again, with other     *)
(* roles and priorities, in another order or one of them alone, while      *)
(* calls are in flight.                                                    *)
(***************************************************************************)
Definition(name, priority, role, emergencyOnly) ==
  [name |-> name, priority |-> priority, role |-> role, emergencyOnly |-> emergencyOnly,
   costWeight |-> Undefined, dailyLimit |-> InitRegistration[name].dailyLimit,
   monthlyLimit |-> InitRegistration[name].monthlyLimit,
   hasAlert |-> FALSE, alertThreshold |-> 0, hasEmergency |-> FALSE, emergencyThreshold |-> 0]
ConfigureInputs ==
  {<<Definition("p1", 1, "primary", FALSE), Definition("p2", 2, "secondary", FALSE)>>,
   <<Definition("p2", 1, "primary", FALSE), Definition("p1", 2, "secondary", TRUE)>>,
   <<Definition("p1", 2, "secondary", FALSE)>>,
   <<Definition("p2", 2, "secondary", FALSE)>>}
ConfigureOptions ==
  {[DefaultOptions EXCEPT !.cuHalves = 2, !.maxProviderAttempts = m] : m \in {Undefined, 2}}
ConfigureCalls == 2

InitConfigure ==
  /\ InitPersist /\ InitStatusIdle /\ InitCountersIdle /\ InitSubscriptionsIdle /\ InitServicesIdle
  /\ providers = TwoProviders
  /\ strategy = NewStrategy
  /\ cache = <<>>
  /\ calls = [c \in Slots |-> IdleSlot]
  /\ audit = NoAudit

NextConfigure ==
  \/ \E opts \in ConfigureOptions :
       /\ writes = <<>> /\ audit.started < ConfigureCalls
       /\ \E c \in Slots : calls[c].pc # "awaiting"
       /\ executeWithBestProvider(freeSlot, opts)
  \/ \E c \in Slots : writes = <<>> /\ executorResolves(c)
  \/ \E c \in Slots : writes = <<>> /\ executorRejects(c)
  \/ \E defs \in ConfigureInputs : writes = <<>> /\ configureProviders(defs)
  \/ \E i \in 1..Len(writes) : ensureDirDone(i)
  \/ \E i \in 1..Len(writes) : writeFileDone(i)

SpecConfigure == InitConfigure /\ [][NextConfigure]_vars

C27_OutcomeAppliedToLiveState ==
  [][\A c \in Slots :
       LET p == Provider(calls[c])
       IN /\ (Resolved(c) /\ p \notin calls[c].lost) =>
               /\ p \in DOMAIN providers'
               /\ providers'[p].totalSuccesses = providers[p].totalSuccesses + 1
               /\ providers'[p].health = "healthy"
          /\ (Rejected(c) /\ p \notin calls[c].lost) =>
               /\ p \in DOMAIN providers'
               /\ providers'[p].totalFailures = providers[p].totalFailures + 1
  ]_vars

(***************************************************************************)
(* The emergency restriction: a primary provider p1 and a second provider  *)
(* that is secondary or emergency-only, calls that respect the restriction *)
(* or not, forced onto p1 or not, with one or two attempts per provider,   *)
(* and forceEmergencyMode at any moment.                                   *)
(***************************************************************************)
RestrictOptions ==
  {[DefaultOptions EXCEPT !.cuHalves = 2, !.respectEmergencyRestrictions = r,
                          !.forceProvider = f, !.maxProviderAttempts = m] :
     r \in BOOLEAN, f \in {"none", "p1"}, m \in {Undefined, 2}}
RestrictCalls == 2

InitRestrict ==
  /\ InitPersist /\ InitStatusIdle /\ InitCountersIdle /\ InitSubscriptionsIdle /\ InitServicesIdle
  /\ \E second \in {NewProviderState(2, "secondary", FALSE, Undefined),
                     NewProviderState(2, "primary", TRUE, Undefined)} :
       providers = [TwoProviders EXCEPT !["p2"] = second]
  /\ strategy = NewStrategy
  /\ cache = <<>>
  /\ calls = [c \in Slots |-> IdleSlot]
  /\ audit = NoAudit

NextRestrict ==
  \/ \E opts \in RestrictOptions :
       /\ writes = <<>> /\ audit.started < RestrictCalls
       /\ \E c \in Slots : calls[c].pc # "awaiting"
       /\ executeWithBestProvider(freeSlot, opts)
  \/ \E c \in Slots : writes = <<>> /\ executorResolves(c)
  \/ \E c \in Slots : writes = <<>> /\ executorRejects(c)
  \/ \E force \in BOOLEAN : writes = <<>> /\ forceEmergencyMode(force)
  \/ \E i \in 1..Len(writes) : ensureDirDone(i)
  \/ \E i \in 1..Len(writes) : writeFileDone(i)

SpecRestrict == InitRestrict /\ [][NextRestrict]_vars

\* the providers a call chooses from: all of them, or the forced one
CandidateSet(opts) ==
  IF opts.forceProvider = "none" THEN Range(strategy.keys)
  ELSE {opts.forceProvider} \cap DOMAIN providers
EmergencyCapable(n) == providers[n].role # "primary" \/ providers[n].emergencyOnly

\* C22: when the executor is invoked while emergency mode is active, for a
\* call that respects the emergency restrictions, on a provider of role
\* primary that is not emergency-only, then no provider that the call chooses
\* from is non-primary or emergency-only.
C22_EmergencyRestriction ==
  [][\A c \in Slots :
       (/\ Invoked(c)
        /\ strategy'.emergencyActive
        /\ calls'[c].opts.respectEmergencyRestrictions
        /\ ~EmergencyCapable(Provider(calls'[c])))
         => \A n \in CandidateSet(calls'[c].opts) : ~EmergencyCapable(n)
  ]_vars

(***************************************************************************)
(* DEFAULT_STRATEGY = round_robin: two providers, the second emergency-only *)
(* or not, the first with its daily quota used up or not; calls with and   *)
(* without a cache key, made one after the other.                          *)
(***************************************************************************)
RoundRobinOptions ==
  {[DefaultOptions EXCEPT !.cuHalves = 2, !.cacheKey = k] : k \in {"none", "k1"}}

InitRoundRobin ==
  /\ InitStatusIdle /\ InitCountersIdle /\ InitSubscriptionsIdle /\ InitServicesIdle
  /\ now = 0 /\ persistPromise = FALSE /\ writes = <<>> /\ file = NoPayload
  /\ last = NoCall /\ seq = 0 /\ fileSeq = 0
  /\ registration = InitRegistration
  /\ \E used \in {0, InitRegistration["p1"].dailyLimit} :
       tracker = [n \in Registered |-> UsedState(IF n = "p1" THEN used ELSE 0)]
  /\ win = [n \in Registered |->
              [ZeroWindow EXCEPT !.sum = tracker[n].dailyUsed,
                                 !.sumC = tracker[n].dailyUsed,
                                 !.n = tracker[n].requestCount,
                                 !.byMethod = tracker[n].cuByMethod]]
  /\ monthSum = [n \in Registered |-> tracker[n].monthlyUsed]
  /\ \E eo \in BOOLEAN : providers = [TwoProviders EXCEPT !["p2"].emergencyOnly = eo]
  /\ strategy = [NewStrategy EXCEPT !.name = "round_robin"]
  /\ cache = <<>>
  /\ calls = [c \in Slots |-> IdleSlot]
  /\ audit = NoAudit

NextRoundRobin ==
  \/ \E opts \in RoundRobinOptions : Quiet /\ executeWithBestProvider(freeSlot, opts)
  \/ \E c \in Slots : writes = <<>> /\ executorResolves(c)
  \/ \E c \in Slots : writes = <<>> /\ executorRejects(c)
  \/ \E i \in 1..Len(writes) : ensureDirDone(i)
  \/ \E i \in 1..Len(writes) : writeFileDone(i)

SpecRoundRobin == InitRoundRobin /\ [][NextRoundRobin]_vars

\* C23: with two providers and no failure, two calls made one after the other
\* are served by different providers, so that in any 2k consecutive calls each
\* provider is selected k times, also when a provider is emergency-only or at
\* its quota.
C23_RoundRobinFair ==
  [][\A c \in Slots :
       (/\ Resolved(c)
        /\ \A n \in DOMAIN providers : providers[n].totalFailures = 0
        /\ audit.returned.outcome = "ok"
        /\ audit.returned.id + 1 = calls[c].id)
         => Provider(calls[c]) # audit.returned.servedBy
  ]_vars

\* a step in which executeWithBestProvider is called
CallStarts == audit'.started = audit.started + 1

\* C24: every call of executeWithBestProvider advances the round-robin cursor
\* by one, modulo the number of providers, whether it then succeeds, fails on
\* every candidate or is served from the cache.
C24_CursorAdvancesEveryCall ==
  [][CallStarts =>
       strategy'.roundRobinCounter = (strategy.roundRobinCounter + 1) % Len(strategy.keys)
  ]_vars

(***************************************************************************)
(* DEFAULT_STRATEGY = capacity_based: two providers with 0 to 3 and 0 to 2 *)
(* units used today, the first with one more unit used earlier in the      *)
(* month or not, the second emergency-only or not; calls with and without  *)
(* a preferred provider and allowNearLimit.                                *)
(***************************************************************************)
CapacityOptions ==
  {[DefaultOptions EXCEPT !.cuHalves = 2, !.preferredProvider = pp, !.allowNearLimit = a] :
     pp \in {"none", "p1"}, a \in BOOLEAN}
CapacityCalls == 2

InitCapacity ==
  /\ InitStatusIdle /\ InitCountersIdle /\ InitSubscriptionsIdle /\ InitServicesIdle
  /\ now = 0 /\ persistPromise = FALSE /\ writes = <<>> /\ file = NoPayload
  /\ last = NoCall /\ seq = 0 /\ fileSeq = 0
  /\ registration = InitRegistration
  /\ \E u1 \in 0..InitRegistration["p1"].dailyLimit, u2 \in 0..InitRegistration["p2"].dailyLimit,
        earlier \in {0, 1} :
       tracker = [n \in Registered |->
                    IF n = "p1" THEN [UsedState(u1) EXCEPT !.monthlyUsed = u1 + earlier]
                    ELSE UsedState(u2)]
  /\ win = [n \in Registered |->
              [ZeroWindow EXCEPT !.sum = tracker[n].dailyUsed,
                                 !.sumC = tracker[n].dailyUsed,
                                 !.n = tracker[n].requestCount,
                                 !.byMethod = tracker[n].cuByMethod]]
  /\ monthSum = [n \in Registered |-> tracker[n].monthlyUsed]
  /\ \E eo \in BOOLEAN : providers = [TwoProviders EXCEPT !["p2"].emergencyOnly = eo]
  /\ strategy = NewStrategy
  /\ cache = <<>>
  /\ calls = [c \in Slots |-> IdleSlot]
  /\ audit = NoAudit

NextCapacity ==
  \/ \E opts \in CapacityOptions :
       /\ Quiet /\ audit.started < CapacityCalls
       /\ executeWithBestProvider(freeSlot, opts)
  \/ \E c \in Slots : writes = <<>> /\ executorResolves(c)
  \/ \E c \in Slots : writes = <<>> /\ executorRejects(c)
  \/ \E i \in 1..Len(writes) : ensureDirDone(i)
  \/ \E i \in 1..Len(writes) : writeFileDone(i)

SpecCapacity == InitCapacity /\ [][NextCapacity]_vars

\* twice the score of provider n times both of its limits, and those limits:
\* the score is the average of (limit - used) / limit for the day and the month
ScoreTimesLimits(n) ==
  LET usage == maybeReset(tracker[n], now)
  IN (registration[n].dailyLimit - usage.dailyUsed) * registration[n].monthlyLimit
       + (registration[n].monthlyLimit - usage.monthlyUsed) * registration[n].dailyLimit
BothLimits(n) == registration[n].dailyLimit * registration[n].monthlyLimit
ScoreAbove(a, b) == ScoreTimesLimits(a) * BothLimits(b) > ScoreTimesLimits(b) * BothLimits(a)
\* canUseProvider accepts provider n for the call
Usable(n, call) ==
  /\ providerGate(providers[n], call.opts, strategy.emergencyActive, now)
  /\ canUseVerdict(maybeReset(tracker[n], now), registration[n], call.estimatedCu,
                   call.opts.allowNearLimit, FALSE, FALSE)

\* C25: the provider on which a call invokes the executor first has the
\* highest average of remaining daily and monthly fraction among the
\* candidates that can be used, and the lowest priority number among those
\* with that score.
C25_CapacityOrder ==
  [][\A c \in Slots :
       (CallStarts /\ calls'[c].pc = "awaiting" /\ calls'[c].id = audit'.started) =>
         LET p == Provider(calls'[c])
         IN \A q \in Range(calls'[c].candidates) :
              Usable(q, calls'[c]) =>
                /\ ~ScoreAbove(q, p)
                /\ ~ScoreAbove(p, q) => providers[p].priority <= providers[q].priority
  ]_vars

\* a call that prefers p1 has p2 first in its candidates and is awaiting its
\* executor on p2, p1 being usable with one unit used and a lower score
C25_Witness ==
  \E c \in Slots :
    /\ calls[c].pc = "awaiting" /\ calls[c].attempt = 1
    /\ calls[c].candidates = <<"p2", "p1">> /\ calls[c].idx = 1
    /\ calls[c].opts.preferredProvider = "p1"
    /\ tracker["p1"].dailyUsed = 1 /\ tracker["p2"].dailyUsed = 0
    /\ Usable("p1", calls[c])

(***************************************************************************)
(* ResilientProviderManager: onNewHeads in polling mode and subscribeLogs. *)
(* A tick runs from the interval callback to its first await in one step,  *)
(* and from the answer of the network to its next await or its end in      *)
(* another; the interval can fire again while a tick awaits.  An endpoint  *)
(* reports the head of the chain or the block before it; getLogs returns   *)
(* the logs of the blocks asked for, in ascending order.                   *)
(***************************************************************************)
MaxBlock == 3
\* what getBlockNumber can resolve to
ReportedHeads == {h \in 0..MaxBlock : chain.tip - 1 <= h /\ h <= chain.tip}

\* a block is added to the chain
newBlock ==
  /\ chain.tip < MaxBlock
  /\ chain' = [chain EXCEPT !.tip = @ + 1]
  /\ UNCHANGED <<now, last, trackerVars, statusVars, countersVars, strategyVars,
                 serviceVars, headSub, logSub>>

beyondHeads ==
  <<now, last, trackerVars, statusVars, countersVars, strategyVars, serviceVars, chain, logSub>>
beyondLogs ==
  <<now, last, trackerVars, statusVars, countersVars, strategyVars, serviceVars, chain, headSub>>

\* onNewHeads, polling: the interval fires and tick runs to its await
headTick(k) ==
  /\ headSub.timer
  /\ headSub.ticks[k] = "idle"
  /\ headSub.running
  /\ headSub' = [headSub EXCEPT !.ticks[k] = "awaiting"]
  /\ UNCHANGED beyondHeads

\* bn !== last
headChanged_Always(lastHead, bn) == TRUE
headChanged(lastHead, bn) == bn # lastHead

\* getBlockNumber of tick k resolves to bn: the handler is invoked on a new head
headTickResolves(k, bn) ==
  /\ headSub.ticks[k] = "awaiting"
  /\ headSub' = IF headChanged(headSub.last, bn)
                  THEN [headSub EXCEPT !.ticks[k] = "idle", !.last = bn,
                                       !.handled = bn, !.parity = 1 - @]
                  ELSE [headSub EXCEPT !.ticks[k] = "idle"]
  /\ UNCHANGED beyondHeads

\* withProvider of tick k rejects: catch {}
headTickRejects(k) ==
  /\ headSub.ticks[k] = "awaiting"
  /\ headSub' = [headSub EXCEPT !.ticks[k] = "idle"]
  /\ UNCHANGED beyondHeads

\* the function returned by onNewHeads
headUnsubscribe ==
  /\ headSub' = [headSub EXCEPT !.running = FALSE, !.timer = FALSE, !.unsubscribed = TRUE]
  /\ UNCHANGED beyondHeads

\* subscribeLogs: the interval fires and tick runs to its first await
logTick(k) ==
  /\ logSub.timer
  /\ logSub.ticks[k].pc = "idle"
  /\ logSub.running
  /\ logSub' = [logSub EXCEPT !.ticks[k].pc = "awaitingHead"]
  /\ UNCHANGED beyondLogs

\* the fromBlock of a tick
fromBlock(latest, fromLag, lastSeen) ==
  LET from == Max(0, latest - fromLag)
  IN IF lastSeen > 0 /\ from <= lastSeen THEN lastSeen + 1 ELSE from

\* getBlockNumber of tick k resolves to latest: getLogs is called, unless
\* fromBlock is past latest
logHeadResolves(k, latest) ==
  LET from == fromBlock(latest, logSub.fromLag, logSub.lastSeen)
  IN /\ logSub.ticks[k].pc = "awaitingHead"
     /\ logSub' = IF from > latest THEN [logSub EXCEPT !.ticks[k] = NoLogTick]
                  ELSE [logSub EXCEPT !.ticks[k] =
                          [pc |-> "awaitingLogs", latest |-> latest, from |-> from]]
     /\ UNCHANGED beyondLogs

\* getLogs of tick k resolves: lastSeen is set and the handler is invoked on
\* every log
logQueryResolves(k) ==
  LET tick == logSub.ticks[k]
      blocks == {b \in tick.from..tick.latest : b \in chain.withLogs}
      lastBlock == CHOOSE b \in blocks : \A other \in blocks : other <= b
  IN /\ tick.pc = "awaitingLogs"
     /\ logSub' = [logSub EXCEPT
                     !.ticks[k] = NoLogTick,
                     !.lastSeen = IF blocks # {} THEN lastBlock ELSE tick.latest,
                     !.delivered = [b \in DOMAIN @ |->
                                      IF b \in blocks THEN Min(2, @[b] + 1) ELSE @[b]]]
     /\ UNCHANGED beyondLogs

\* a withProvider of tick k rejects: catch {}
logTickRejects(k) ==
  /\ logSub.ticks[k].pc # "idle"
  /\ logSub' = [logSub EXCEPT !.ticks[k] = NoLogTick]
  /\ UNCHANGED beyondLogs

\* the function returned by subscribeLogs
logUnsubscribe ==
  /\ logSub' = [logSub EXCEPT !.running = FALSE, !.timer = FALSE, !.unsubscribed = TRUE]
  /\ UNCHANGED beyondLogs

\* onNewHeads(handler) with no WebSocket provider has returned: its first
\* tick awaits getBlockNumber
InitHeads ==
  /\ InitPersist /\ InitStatusIdle /\ InitCountersIdle /\ InitStrategyIdle /\ InitServicesIdle
  /\ \E tip \in 0..1 : chain = [tip |-> tip, withLogs |-> {}]
  /\ headSub = [NoHeadSub EXCEPT !.running = TRUE, !.timer = TRUE, !.ticks[1] = "awaiting"]
  /\ logSub = NoLogSub

NextHeads ==
  \/ newBlock
  \/ \E k \in TickSlots : headTick(k)
  \/ \E k \in TickSlots, bn \in ReportedHeads : headTickResolves(k, bn)
  \/ \E k \in TickSlots : headTickRejects(k)
  \/ headUnsubscribe

SpecHeads == InitHeads /\ [][NextHeads]_vars

\* subscribeLogs(filter, handler) has returned: its first tick awaits
\* getBlockNumber
InitLogs ==
  /\ InitPersist /\ InitStatusIdle /\ InitCountersIdle /\ InitStrategyIdle /\ InitServicesIdle
  /\ \E withLogs \in SUBSET (1..MaxBlock) : chain = [tip |-> 1, withLogs |-> withLogs]
  /\ headSub = NoHeadSub
  /\ \E fromLag \in {0, 2} :
       logSub = [NoLogSub EXCEPT !.running = TRUE, !.timer = TRUE, !.fromLag = fromLag,
                                 !.ticks[1].pc = "awaitingHead",
                                 !.delivered = [b \in 0..MaxBlock |-> 0]]

NextLogs ==
  \/ newBlock
  \/ \E k \in TickSlots : logTick(k)
  \/ \E k \in TickSlots, latest \in ReportedHeads : logHeadResolves(k, latest)
  \/ \E k \in TickSlots : logQueryResolves(k)
  \/ \E k \in TickSlots : logTickRejects(k)
  \/ logUnsubscribe

SpecLogs == InitLogs /\ [][NextLogs]_vars

\* the handler of the onNewHeads subscription is invoked in this step
HeadHandlerInvoked == headSub'.parity # headSub.parity

\* C28: after unsubscribe has been called the handler is never invoked again:
\* no new tick starts, a tick that was awaiting the network discards its
\* result, and a second unsubscribe changes nothing.
C28_NoDeliveryAfterUnsubscribe ==
  [][headSub.unsubscribed =>
       /\ ~HeadHandlerInvoked
       /\ \A k \in TickSlots : headSub.ticks[k] = "idle" => headSub'.ticks[k] = "idle"
       /\ headSub'.unsubscribed /\ ~headSub'.running /\ ~headSub'.timer]_vars

\* C29: subscribeLogs never delivers the logs of one block twice, for any
\* timing of ticks, and lastSeen never decreases.
C29_NoBlockDeliveredTwice ==
  [][/\ \A b \in DOMAIN logSub'.delivered : logSub'.delivered[b] <= 1
     /\ logSub'.lastSeen >= logSub.lastSeen]_vars

\* C30: in polling mode no two consecutive invocations of the handler of one
\* onNewHeads subscription carry the same block number.
C30_HandlerOnlyOnChange ==
  [][HeadHandlerInvoked => headSub'.handled # headSub.handled]_vars

\* the handler has been invoked at least twice, the last time with block 1
C30_Witness ==
  headSub.parity = 0 /\ headSub.handled = 1

(***************************************************************************)
(* Further claims about the CuTracker class, checked under SpecTracker.    *)
(***************************************************************************)
\* C35: getUsage is read-only: at every wall-clock time it leaves every
\* stored counter of every provider unchanged.
C35_GetUsageReadOnly ==
  [][last'.op = "getUsage" => tracker' = tracker]_vars

\* C39: for every registered provider, whatever calls were made and however
\* the day and the month changed, dailyUsed <= monthlyUsed and the cuByMethod
\* values add up to dailyUsed.
C39_DailyWithinMonthly ==
  \A p \in DOMAIN tracker :
    /\ tracker[p].dailyUsed <= tracker[p].monthlyUsed
    /\ SumOf(tracker[p].cuByMethod, MethodKeys) = tracker[p].dailyUsed

\* C39 witness: usage recorded on the second day of a month, on top of the
\* usage of its first day.
C39_Witness ==
  /\ 0 < tracker["p1"].dailyUsed
  /\ tracker["p1"].dailyUsed < tracker["p1"].monthlyUsed
  /\ tracker["p1"].lastDailyReset = 1

(***************************************************************************)
(* Provider health: the calls of SpecAttempts, on a provider p1 that has   *)
(* no failures yet or two consecutive failures already.                    *)
(***************************************************************************)
InitHealth ==
  /\ InitPersist /\ InitStatusIdle /\ InitCountersIdle /\ InitSubscriptionsIdle /\ InitServicesIdle
  /\ \E earlier \in {0, 1} :
       providers = [TwoProviders EXCEPT
                      !["p1"] = IF earlier = 0 THEN @
                                ELSE handleFailure(handleFailure(@, 0), 0)]
  /\ strategy = NewStrategy
  /\ cache = <<>>
  /\ calls = [c \in Slots |-> IdleSlot]
  /\ audit = NoAudit

SpecHealth == InitHealth /\ [][NextAttempts]_vars

HealthAgrees(ps) ==
  /\ ps.health = "healthy" <=> ps.consecutiveFailures = 0
  /\ ps.health = "degraded" <=>
       (0 < ps.consecutiveFailures /\ ps.consecutiveFailures < PROVIDER_FAILURE_THRESHOLD)
  /\ ps.health = "offline" <=> ps.consecutiveFailures >= PROVIDER_FAILURE_THRESHOLD
  /\ ps.health = "offline" => ps.offlineUntil # 0

\* C37: health and consecutiveFailures of every provider agree in every
\* state, an offline provider has offlineUntil set; an offline provider stays
\* offline, its cooldown expired or not, until an invocation on it resolves,
\* and a rejected invocation on it renews the cooldown.
C37_HealthAgreesWithFailures ==
  /\ [](\A p \in DOMAIN providers : HealthAgrees(providers[p]))
  /\ [][\A p \in DOMAIN providers :
          providers[p].health = "offline" =>
            /\ providers'[p].health # "offline" =>
                  \E c \in Slots : Resolved(c) /\ Provider(calls[c]) = p
            /\ \A c \in Slots :
                  (Rejected(c) /\ Provider(calls[c]) = p) =>
                    providers'[p].offlineUntil = now + OfflineCooldown]_vars

\* C37 witness: the cooldown of p1 has expired and p1 is still offline
C37_Witness ==
  /\ providers["p1"].health = "offline"
  /\ providers["p1"].offlineUntil # 0 /\ providers["p1"].offlineUntil <= now

\* C38: when preferredProvider names a configured provider that canUseProvider
\* accepts, the executor is invoked on that provider first.
C38_PreferredProviderFirst ==
  [][\A c \in Slots :
       (CallStarts /\ calls'[c].pc = "awaiting" /\ calls'[c].id = audit'.started) =>
         LET preferred == calls'[c].opts.preferredProvider
         IN (preferred \in DOMAIN providers /\ Usable(preferred, calls'[c])) =>
              Provider(calls'[c]) = preferred
  ]_vars

(***************************************************************************)
(* Startup of the tracker: cuTracker.bootstrap() has called loadFromDisk,  *)
(* whose readFile is in flight, while the manager's bootstrap registers    *)
(* the providers and calls record usage.                                   *)
(***************************************************************************)
\* what JSON.parse gives for the storage file: nothing for a file without
\* providers, or p1 as a run with other limits left it, today
StoredFiles ==
  {NoPayload,
   [n \in {"p1"} |->
      [registration |-> [InitRegistration["p1"] EXCEPT !.dailyLimit = 2, !.alertThreshold = 50],
       usage |-> UsedState(1)]]}

\* the definitions the manager registers for p1
LoadDefs ==
  {[Definition("p1", 1, "primary", FALSE) EXCEPT !.dailyLimit = d] : d \in {3, 4}}

\* registerProvider(reg): a known provider gets the registration, a new one
\* zero counters as well
registerProvider(def) ==
  LET name == def.name
      add(f, v) == IF name \in DOMAIN f THEN f ELSE (name :> v) @@ f
  IN /\ last' = [NoCall EXCEPT !.op = "registerProvider", !.name = name]
     /\ registration' = (name :> registered(def)) @@ registration
     /\ tracker' = add(tracker, FreshUsage(now))
     /\ win' = add(win, ZeroWindow)
     /\ monthSum' = add(monthSum, 0)
     /\ loading' = [loading EXCEPT !.latest = (name :> registered(def)) @@ @]
     /\ UNCHANGED <<now, persistPromise, writes, file, seq, fileSeq, statusVars, countersVars,
                    strategyVars, subscriptionVars, manager, invocations, monitor, retry>>

\* readFile of loadFromDisk resolves: every provider of the file is set from
\* the file, registration included
loadFromDiskResolves ==
  LET stored == loading.stored
      names == DOMAIN stored \cup DOMAIN tracker
  IN /\ loading.pc = "reading"
     /\ loading' = [loading EXCEPT !.pc = "done"]
     /\ tracker' = [n \in names |-> IF n \in DOMAIN stored THEN stored[n].usage ELSE tracker[n]]
     /\ registration' = [n \in names |->
                           IF n \in DOMAIN stored THEN stored[n].registration
                           ELSE registration[n]]
     /\ win' = [n \in names |-> IF n \in DOMAIN win THEN win[n] ELSE ZeroWindow]
     /\ monthSum' = [n \in names |-> IF n \in DOMAIN monthSum THEN monthSum[n] ELSE 0]
     /\ last' = NoCall
     /\ UNCHANGED <<now, persistPromise, writes, file, seq, fileSeq, statusVars, countersVars,
                    strategyVars, subscriptionVars, manager, invocations, monitor, retry>>

InitLoad ==
  /\ InitStatusIdle /\ InitCountersIdle /\ InitStrategyIdle /\ InitSubscriptionsIdle
  /\ now = 0 /\ persistPromise = FALSE /\ writes = <<>> /\ file = NoPayload
  /\ last = NoCall /\ seq = 0 /\ fileSeq = 0
  /\ tracker = NoPayload /\ registration = NoPayload
  /\ win = NoPayload /\ monthSum = NoPayload
  /\ \E stored \in StoredFiles : loading = [NoLoad EXCEPT !.pc = "reading", !.stored = stored]
  /\ manager = NoManager /\ invocations = <<>> /\ monitor = NoMonitor /\ retry = NoRetry

NextLoad ==
  \/ \E def \in LoadDefs : registerProvider(def)
  \/ \E cu \in CuHalves : recordUsage("p1", "undefined", TRUE, cu)
  \/ \E name \in TrackerNames : getUsage(name)
  \/ \E i \in 1..Len(writes) : ensureDirDone(i)
  \/ \E i \in 1..Len(writes) : writeFileDone(i)
  \/ loadFromDiskResolves

SpecLoad == InitLoad /\ [][NextLoad]_vars

\* C36: once the load has completed, the limits and thresholds of every
\* provider are those of its latest registerProvider call and its dailyUsed is
\* at least the usage recorded in this process (no reset happens here).
C36_LoadKeepsLiveState ==
  loading.pc = "done" =>
    \A p \in DOMAIN loading.latest :
      /\ registration[p] = loading.latest[p]
      /\ tracker[p].dailyUsed >= win[p].sum

(***************************************************************************)
(* rpc.ts: callRpc and withRetry.  Both run the same loop, callRpc around  *)
(* RP.withProvider and withRetry around the function it is given.  An      *)
(* error is its code and the phrase its lower-cased message contains.      *)
(***************************************************************************)
DEFAULT_RETRIES == 3
ErrorCodes == {429, 500}
ErrorPhrases == {"rate", "capacity", "compute units", "exceeded", "slow down", "reverted"}
\* options.maxRetries: left out, or a number (-2 for a negative one)
RetryOptions == {Undefined, -2, 0, 1, 2}

isRateLimit(err) ==
  \/ err.code = 429
  \/ err.phrase \in {"rate", "capacity", "compute units", "exceeded", "slow down"}

\* the test that leaves the loop after a failure
breaks_OnLastAttemptOnly(attempt, maxRetries, err) == attempt >= maxRetries
breaks(attempt, maxRetries, err) == attempt >= maxRetries \/ ~isRateLimit(err)

beyondRetry ==
  <<now, last, trackerVars, statusVars, countersVars, strategyVars, subscriptionVars,
    loading, manager, invocations, monitor>>

\* callRpc / withRetry is called and runs to its first await
startRetry(maxRetries) ==
  /\ retry.pc = "idle"
  /\ retry' = [NoRetry EXCEPT !.pc = "awaiting", !.invoked = 1,
                              !.maxRetries = Max(0, IF maxRetries = Undefined
                                                      THEN DEFAULT_RETRIES ELSE maxRetries)]
  /\ UNCHANGED beyondRetry

\* the operation resolves: its value is returned
operationResolves ==
  /\ retry.pc = "awaiting"
  /\ retry' = [retry EXCEPT !.pc = "returned"]
  /\ UNCHANGED beyondRetry

\* the operation rejects with an error: the loop is left and lastError thrown,
\* or the backoff delay is awaited
operationRejects(code, phrase) ==
  LET err == [id |-> retry.invoked, code |-> code, phrase |-> phrase]
  IN /\ retry.pc = "awaiting"
     /\ retry' = IF breaks(retry.attempt, retry.maxRetries, err)
                   THEN [retry EXCEPT !.pc = "thrown", !.lastError = err, !.thrown = err]
                   ELSE [retry EXCEPT !.pc = "delaying", !.lastError = err]
     /\ UNCHANGED beyondRetry

\* the delay is over: the next attempt invokes the operation
delayDone ==
  /\ retry.pc = "delaying"
  /\ retry' = IF retry.attempt + 1 <= retry.maxRetries
                 THEN [retry EXCEPT !.pc = "awaiting", !.attempt = @ + 1, !.invoked = @ + 1]
                 ELSE [retry EXCEPT !.pc = "thrown", !.attempt = @ + 1, !.thrown = retry.lastError]
  /\ UNCHANGED beyondRetry

InitRetry ==
  /\ InitPersist /\ InitStatusIdle /\ InitCountersIdle /\ InitStrategyIdle
  /\ InitSubscriptionsIdle /\ InitServicesIdle

NextRetry ==
  \/ \E maxRetries \in RetryOptions : startRetry(maxRetries)
  \/ operationResolves
  \/ \E code \in ErrorCodes, phrase \in ErrorPhrases : operationRejects(code, phrase)
  \/ delayDone

SpecRetry == InitRetry /\ [][NextRetry]_vars

\* C34: the operation is invoked at most maxRetries + 1 times; a failure that
\* isRateLimit does not classify as rate-limited ends the loop at once; the
\* error thrown is that of the last invocation; after a success or a throw
\* the operation is not invoked again.
C34_RetryOnlyRateLimits ==
  /\ [](retry.invoked <= retry.maxRetries + 1)
  /\ [](retry.pc = "delaying" => isRateLimit(retry.lastError))
  /\ [](retry.pc = "thrown" => retry.thrown.id = retry.invoked)
  /\ [][retry.pc \in {"returned", "thrown"} => retry' = retry]_vars
  /\ [][(retry.pc = "awaiting" /\ retry'.pc = "returned") => retry'.invoked = retry.invoked]_vars

\* C34 witness: three invocations were rate-limited and the fourth, the last
\* that maxRetries 3 allows, failed with another error, which was thrown
C34_Witness ==
  /\ retry.pc = "thrown" /\ retry.invoked = 4 /\ retry.maxRetries = 3
  /\ ~isRateLimit(retry.thrown)

(***************************************************************************)
(* cuMonitor.ts: the CuMonitor class.  A snapshot is its number; latest is *)
(* the number of the snapshot this.latest holds, 0 for null.  The usage,   *)
(* provider-failure and emergency-mode-changed events come from the        *)
(* tracker and the strategy, to the listeners the constructor registered.  *)
(***************************************************************************)
MaxEvents == 3
MaxSnapshots == 4

\* collect(): a snapshot is computed, stored in latest and emitted
collect(m) == [m EXCEPT !.computed = @ + 1, !.latest = m.computed + 1]

\* debounceCollect()
debounceCollect_EveryEvent(m) ==
  [m EXCEPT !.debounceTimer = TRUE, !.pending = @ + 1, !.events = @ + 1,
            !.windows = IF m.debounceTimer THEN @ ELSE @ + 1]
debounceCollect(m) ==
  IF m.debounceTimer THEN [m EXCEPT !.events = @ + 1]
  ELSE [m EXCEPT !.debounceTimer = TRUE, !.pending = @ + 1, !.events = @ + 1,
                 !.windows = @ + 1]

beyondMonitor ==
  <<now, last, trackerVars, statusVars, countersVars, strategyVars, subscriptionVars,
    loading, manager, invocations, retry>>

\* start()
monitorStart ==
  /\ monitor.computed < MaxSnapshots
  /\ monitor' = IF monitor.timer THEN [monitor EXCEPT !.stopped = FALSE]
                 ELSE collect([monitor EXCEPT !.timer = TRUE, !.stopped = FALSE])
  /\ UNCHANGED beyondMonitor

\* stop()
monitorStop ==
  /\ monitor' = IF monitor.debounceTimer
                   THEN [monitor EXCEPT !.timer = FALSE, !.debounceTimer = FALSE,
                                        !.pending = @ - 1, !.cancelled = @ + 1,
                                        !.stopped = TRUE]
                   ELSE [monitor EXCEPT !.timer = FALSE, !.stopped = TRUE]
  /\ UNCHANGED beyondMonitor

\* requestImmediateUpdate()
requestImmediateUpdate ==
  /\ monitor.computed < MaxSnapshots
  /\ monitor' = collect([monitor EXCEPT !.stopped = FALSE])
  /\ UNCHANGED beyondMonitor

\* toggleEmergency(force): forceEmergencyMode emits emergency-mode-changed
\* when it changes the mode, then collect()
toggleEmergency(changes) ==
  /\ monitor.computed < MaxSnapshots
  /\ changes => monitor.events < MaxEvents
  /\ monitor' = collect(IF changes THEN debounceCollect([monitor EXCEPT !.stopped = FALSE])
                         ELSE [monitor EXCEPT !.stopped = FALSE])
  /\ UNCHANGED beyondMonitor

\* the callback of setInterval
monitorIntervalFires ==
  /\ monitor.timer
  /\ monitor.computed < MaxSnapshots
  /\ monitor' = collect(monitor)
  /\ UNCHANGED beyondMonitor

\* a usage, provider-failure or emergency-mode-changed event is emitted
monitorEvent ==
  /\ monitor.events < MaxEvents
  /\ monitor' = debounceCollect(monitor)
  /\ UNCHANGED beyondMonitor

\* the callback of the debounce timeout
debounceFires ==
  /\ monitor.pending > 0
  /\ monitor.computed < MaxSnapshots
  /\ monitor' = collect([monitor EXCEPT !.debounceTimer = FALSE, !.pending = @ - 1,
                                         !.debounced = @ + 1])
  /\ UNCHANGED beyondMonitor

InitMonitor ==
  /\ InitPersist /\ InitStatusIdle /\ InitCountersIdle /\ InitStrategyIdle
  /\ InitSubscriptionsIdle /\ InitServicesIdle

NextMonitor ==
  \/ monitorStart
  \/ monitorStop
  \/ requestImmediateUpdate
  \/ \E changes \in BOOLEAN : toggleEmergency(changes)
  \/ monitorIntervalFires
  \/ monitorEvent
  \/ debounceFires

SpecMonitor == InitMonitor /\ [][NextMonitor]_vars

\* C33: however many events arrive while a debounce window is open, one
\* refresh is scheduled, and every window opened ends in one debounced
\* recomputation (or is cleared by stop); an event that arrives when no
\* window is open opens one; latest is the snapshot computed last.
C33_BurstGivesOneRefresh ==
  /\ [](monitor.pending = IF monitor.debounceTimer THEN 1 ELSE 0)
  /\ [](monitor.debounced + monitor.cancelled + monitor.pending = monitor.windows)
  /\ [](monitor.latest = monitor.computed)
  /\ [][(monitor'.events # monitor.events /\ ~monitor.debounceTimer) =>
          (monitor'.debounceTimer /\ monitor'.windows = monitor.windows + 1)]_vars
  /\ [][monitor'.debounced # monitor.debounced =>
          (monitor'.computed = monitor.computed + 1 /\ ~monitor'.debounceTimer)]_vars

\* C33 witness: three events in one window gave one recomputation, and no
\* window is open
C33_Witness ==
  /\ monitor.events = 3 /\ monitor.windows = 1 /\ monitor.debounced = 1
  /\ monitor.computed = 1 /\ ~monitor.debounceTimer

\* C40: after stop() no snapshot is computed until start,
\* requestImmediateUpdate or toggleEmergency is called, whatever events arrive.
C40_NoSnapshotAfterStop ==
  [][(monitor.stopped /\ monitor'.stopped) => monitor'.computed = monitor.computed]_vars

(***************************************************************************)
(* ResilientProviderManager: bootstrap and withProvider.  The environment  *)
(* configures p1 with the HTTP URLs a and b, p2 with c, and p3 with a      *)
(* WebSocket URL only.  ProviderStrategy is the caller of the executor:    *)
(* it names the provider, and the executor's outcome is what it counts.    *)
(***************************************************************************)
ManagerConfigs ==
  <<[name |-> "p1", httpUrls |-> <<"a", "b">>, wsUrls |-> 0],
    [name |-> "p2", httpUrls |-> <<"c">>, wsUrls |-> 0],
    [name |-> "p3", httpUrls |-> <<>>, wsUrls |-> 1]>>
InvocationSlots == {1, 2}
\* options.maxProviderAttempts
AttemptsOptions == {Undefined, 1, 3}

\* the probes of the HTTP URLs of the k-th configuration, all pending
probesOf(k) ==
  IF k > Len(ManagerConfigs) THEN <<>>
  ELSE [u \in Range(ManagerConfigs[k].httpUrls) |-> "pending"]

\* httpProviders of a configuration: the URLs whose probe gave a provider, or
\* the first URL when none did
httpProviders_NoFallback(urls, probes) == SelectNames(urls, {u \in Range(urls) : probes[u] = "ok"})
httpProviders(urls, probes) ==
  LET kept == SelectNames(urls, {u \in Range(urls) : probes[u] = "ok"})
  IN IF kept = <<>> /\ Len(urls) > 0 THEN <<urls[1]>> ELSE kept

beyondManager ==
  <<now, last, trackerVars, statusVars, countersVars, strategyVars, subscriptionVars,
    loading, monitor, retry>>

\* testHttp(url): getBlockNumber answers before the timeout
probeAnswers(u) ==
  /\ manager.ready = "pending" /\ u \in DOMAIN manager.probes /\ manager.probes[u] = "pending"
  /\ manager' = [manager EXCEPT !.probes[u] = "ok", !.answered = @ \cup {u}]
  /\ UNCHANGED <<beyondManager, invocations>>

\* testHttp(url): getBlockNumber rejects, or the timeout wins the race
probeFails(u) ==
  /\ manager.ready = "pending" /\ u \in DOMAIN manager.probes /\ manager.probes[u] = "pending"
  /\ manager' = [manager EXCEPT !.probes[u] = "failed"]
  /\ UNCHANGED <<beyondManager, invocations>>

\* the probes of the configuration have settled, the WebSocket probes with
\* wsProviders providers: the runtime is stored and the loop goes on; after
\* the last configuration bootstrap returns and ready resolves
configProbed(wsProviders) ==
  LET cfg == ManagerConfigs[manager.cfg]
      http == httpProviders(cfg.httpUrls, manager.probes)
      runtime == [httpProviders |-> http, wsProviders |-> wsProviders, httpIndex |-> 0]
  IN /\ manager.ready = "pending"
     /\ \A u \in DOMAIN manager.probes : manager.probes[u] # "pending"
     /\ wsProviders <= cfg.wsUrls
     /\ manager' = [manager EXCEPT
                      !.runtimes = IF http = <<>> /\ wsProviders = 0 THEN @
                                   ELSE (cfg.name :> runtime) @@ @,
                      !.cfg = @ + 1,
                      !.probes = probesOf(manager.cfg + 1),
                      !.ready = IF manager.cfg = Len(ManagerConfigs) THEN "resolved" ELSE @]
     /\ UNCHANGED <<beyondManager, invocations>>

\* withProvider(fn, options) is called: it awaits ensureReady()
withProvider(s, maxProviderAttempts) ==
  /\ invocations[s].pc \in {"idle", "resolved", "rejected"}
  /\ invocations' = [invocations EXCEPT ![s] =
       [NoInvocation EXCEPT !.pc = "awaitingReady", !.maxProviderAttempts = maxProviderAttempts]]
  /\ UNCHANGED <<beyondManager, manager>>

\* ready has resolved and executeWithBestProvider invokes the executor for
\* provider name: it throws without endpoints, or calls fn on the first one
executorInvoked(s, name) ==
  LET inv == invocations[s]
      known == name \in DOMAIN manager.runtimes
      n == IF known THEN Len(manager.runtimes[name].httpProviders) ELSE 0
      tries == Max(1, IF inv.maxProviderAttempts = Undefined THEN Min(n, 3)
                      ELSE inv.maxProviderAttempts)
      idx == (manager.runtimes[name].httpIndex + 0) % n
  IN /\ inv.pc = "awaitingReady"
     /\ manager.ready = "resolved"
     /\ invocations' = [invocations EXCEPT ![s] =
          IF n = 0 THEN [inv EXCEPT !.pc = "rejected", !.name = name]
          ELSE [inv EXCEPT !.pc = "awaitingFn", !.name = name, !.tries = tries, !.i = 0,
                           !.idx = idx, !.start = manager.runtimes[name].httpIndex,
                           !.walked = <<idx>>]]
     /\ UNCHANGED <<beyondManager, manager>>

\* fn resolves: httpIndex is set to the endpoint and the result returned
fnResolves(s) ==
  LET inv == invocations[s]
  IN /\ inv.pc = "awaitingFn"
     /\ manager' = [manager EXCEPT !.runtimes[inv.name].httpIndex = inv.idx]
     /\ invocations' = [invocations EXCEPT ![s].pc = "resolved"]
     /\ UNCHANGED beyondManager

\* fn rejects: the next endpoint is called, or httpIndex moves on by one and
\* the last error is thrown
fnRejects(s) ==
  LET inv == invocations[s]
      runtime == manager.runtimes[inv.name]
      n == Len(runtime.httpProviders)
      idx == (runtime.httpIndex + inv.i + 1) % n
  IN /\ inv.pc = "awaitingFn"
     /\ IF inv.i + 1 < inv.tries
          THEN /\ invocations' = [invocations EXCEPT ![s] =
                    [inv EXCEPT !.i = @ + 1, !.idx = idx, !.walked = Append(@, idx)]]
               /\ UNCHANGED manager
          ELSE /\ invocations' = [invocations EXCEPT ![s].pc = "rejected"]
               /\ manager' = [manager EXCEPT !.runtimes[inv.name].httpIndex =
                                 (@ + 1) % Max(1, n)]
     /\ UNCHANGED beyondManager

\* the constructor has called bootstrap(), which awaits the probes of the
\* first configuration
InitManager ==
  /\ InitPersist /\ InitStatusIdle /\ InitCountersIdle /\ InitStrategyIdle
  /\ InitSubscriptionsIdle
  /\ loading = NoLoad /\ monitor = NoMonitor /\ retry = NoRetry
  /\ manager = [NoManager EXCEPT !.ready = "pending", !.cfg = 1, !.probes = probesOf(1)]
  /\ invocations = [s \in InvocationSlots |-> NoInvocation]

NextManager ==
  \/ \E u \in {"a", "b", "c"} : probeAnswers(u)
  \/ \E u \in {"a", "b", "c"} : probeFails(u)
  \/ \E wsProviders \in 0..1 : configProbed(wsProviders)
  \/ \E s \in InvocationSlots, mpa \in AttemptsOptions : withProvider(s, mpa)
  \/ \E s \in InvocationSlots, name \in {"p1", "p2", "p3"} : executorInvoked(s, name)
  \/ \E s \in InvocationSlots : fnResolves(s)
  \/ \E s \in InvocationSlots : fnRejects(s)

SpecManager == InitManager /\ [][NextManager]_vars

\* the HTTP endpoints the manager holds for provider name
EndpointsOf(name) ==
  IF name \in DOMAIN manager.runtimes THEN Range(manager.runtimes[name].httpProviders) ELSE {}

\* C32: after bootstrap the HTTP endpoints of every configured provider with
\* an HTTP URL are the URLs whose probe answered in time, or the first URL
\* alone when none did, and so never empty; withProvider calls no endpoint
\* before bootstrap has completed.
C32_EndpointsAfterBootstrap ==
  /\ manager.ready = "resolved" =>
       \A k \in 1..Len(ManagerConfigs) :
         LET cfg == ManagerConfigs[k]
             answeredUrls == manager.answered \cap Range(cfg.httpUrls)
         IN Len(cfg.httpUrls) > 0 =>
              /\ EndpointsOf(cfg.name) =
                   IF answeredUrls # {} THEN answeredUrls ELSE {cfg.httpUrls[1]}
              /\ EndpointsOf(cfg.name) # {}
  /\ \A s \in DOMAIN invocations :
       invocations[s].pc \in {"awaitingFn", "resolved", "rejected"} =>
         manager.ready = "resolved"

\* C32 witness: of p1's probes only that of b answered and p2's probe did
\* not; p1 has endpoint b, p2 its first URL, and fn is being called on c
C32_Witness ==
  /\ manager.ready = "resolved" /\ manager.answered = {"b"}
  /\ manager.runtimes["p1"].httpProviders = <<"b">>
  /\ manager.runtimes["p2"].httpProviders = <<"c">>
  /\ \E s \in DOMAIN invocations :
       invocations[s].pc = "awaitingFn" /\ invocations[s].name = "p2"

\* the number of attempts the options and the endpoints of an invocation allow
AttemptsAllowed(inv) ==
  IF inv.maxProviderAttempts = Undefined
    THEN Min(Len(manager.runtimes[inv.name].httpProviders), 3)
    ELSE inv.maxProviderAttempts

\* C31: an executor invocation calls at most maxProviderAttempts endpoints
\* (min(endpoint count, 3) without the option), the k-th call going to the
\* k-th endpoint in rotation from the httpIndex it started from; it throws
\* only after that many calls failed, and on success httpIndex is the
\* endpoint that succeeded.
C31_BoundedRotation ==
  /\ [](\A s \in DOMAIN invocations :
          LET inv == invocations[s]
          IN inv.walked # <<>> =>
               /\ Len(inv.walked) <= AttemptsAllowed(inv)
               /\ \A k \in 1..Len(inv.walked) :
                    inv.walked[k] =
                      (inv.start + k - 1) % Len(manager.runtimes[inv.name].httpProviders)
               /\ inv.pc = "rejected" => Len(inv.walked) = AttemptsAllowed(inv))
  /\ [][\A s \in DOMAIN invocations :
          (invocations[s].pc = "awaitingFn" /\ invocations'[s].pc = "resolved") =>
            manager'.runtimes[invocations[s].name].httpIndex = invocations[s].idx]_vars

====
